---- MODULE Spec2Model ----
(***************************************************************************)
(* Ticket / authorization engine of k2rbac (src/src/auth.ts): the          *)
(* permission gate Auth.allow, the ticket checksum, the process-wide role  *)
(* map Auth.roles and the process-wide FIFO user->account cache            *)
(* Auth.userAccounts / Auth.userAccountsBuffer, driven by getTicket calls  *)
(* that suspend at their two storage lookups; the token codec              *)
(* (generateTokens, refreshTokens, jwt.sign / jwt.verify) and the role     *)
(* storage operations of Role that run beside them.                        *)
(*                                                                         *)
(* Strings are TLA+ strings, so the checksum preimage is the same          *)
(* concatenation the code builds.  Identifiers (user ids, account ids,     *)
(* role ids) are storage-generated uuids or the three bootstrap names;     *)
(* none of them is the name of a member of Object.prototype.               *)
(***************************************************************************)
EXTENDS Integers, Sequences, FiniteSets, TLC

(***************************************************************************)
(* Bounds of the model.                                                    *)
(***************************************************************************)
\* Capacity of the user->account cache.  The program's value is 1000
\* (src/src/auth.ts:22); the model runs the same code with a small capacity.
MAX_USER_ACCOUNTS_BUFFER == 2
\* Number of times the clock advances.
MaxTicks == 1
\* Number of cache insertions whose order the observer records.
MaxInserts == 4

(***************************************************************************)
(* Program constants.                                                      *)
(***************************************************************************)
\* ms("15m"): lifetime of a ticket in milliseconds.
ticketExpirationInMillis == 900000
\* "15m" as jsonwebtoken's expiresIn, in seconds.
JWT_EXPIRATION == 900
\* "7d" as jsonwebtoken's expiresIn, in seconds.
JWT_REFRESH_EXPIRATION == 604800
\* One step of the clock: 16 minutes, in milliseconds.
TickMillis == 16 * 60 * 1000

JWT_SECRET == "your_jwt_secret_key"
JWT_REFRESH_SECRET == "your_jwt_refresh_secret_key"

\* The getTicket calls that can be in flight at once.
Calls == {1, 2}

(***************************************************************************)
(* Data.                                                                   *)
(***************************************************************************)
\* Users that own an account: one more than the cache can hold.
OwnerIds == {"u" \o ToString(i) : i \in 1..(MAX_USER_ACCOUNTS_BUFFER + 1)}
\* A user that owns no account.
UserIds == OwnerIds \cup {"nobody"}

\* The _accounts collection as findOne({_owner: userId}) sees it: the _uuid of
\* the account owned by each user that owns one.
StoredAccounts == [u \in OwnerIds |-> "acct-" \o u]

\* The _users collection: the stored users by _uuid.
StoredUsers == [u \in {"u1", "u2"} |-> [email |-> u \o "@k2"]]

\* The userRoles maps of the stored accounts.
StoredUserRoles ==
  ("acct-u1" :> ("u1" :> <<"r1">>)) @@ ("acct-u2" :> ("u2" :> <<"r2", "r1">>))

\* The _roles collection: documents {_uuid, permissions}, in scan order.
StoredRoles ==
  << [_uuid |-> "r1", permissions |-> <<"read">>],
     [_uuid |-> "r2", permissions |-> <<"write", "read">>] >>

\* The role ids a user's tokens are issued with: known ids in both orders, an
\* id no role has next to a bootstrap id, the bootstrap id system, a repeated
\* id.
UserRoles(u) ==
  CASE u = "u1" -> <<"r1", "r2">>
    [] u = "u2" -> <<"r2", "r1">>
    [] u = "u3" -> <<"ghost", "r1", "member">>
    [] u = "nobody" -> <<"system">>
    [] OTHER -> <<"r1", "r1">>

\* The token payloads in circulation: one per user, and two with other role
\* lists (none, a repeated id).
Payloads ==
  {[userId |-> u, roles |-> UserRoles(u), restrictedMode |-> (u = "u2")] :
     u \in UserIds}
    \cup {[userId |-> "u1", roles |-> <<>>, restrictedMode |-> TRUE],
          [userId |-> "u3", roles |-> <<"r1", "r1">>, restrictedMode |-> TRUE]}

NoPayload == [userId |-> "", roles |-> <<>>, restrictedMode |-> FALSE]

\* A value of type Ticket that is null / undefined.
Null == [null |-> TRUE]

NoError == [code |-> "", trace |-> ""]

K2Error(code, trace) == [code |-> code, trace |-> trace]

(***************************************************************************)
(* Sequence helpers.                                                       *)
(***************************************************************************)
ToSet(s) == {s[i] : i \in 1..Len(s)}

\* Array.prototype.includes
Includes(s, x) == \E i \in 1..Len(s) : s[i] = x

(***************************************************************************)
(* ChecksumGuard: Auth.checksumTicket / Auth.verifyTicket.                 *)
(***************************************************************************)
RECURSIVE JoinQuoted(_)
\* The elements of a string array, each JSON-quoted, joined by commas.
JoinQuoted(s) ==
  IF Len(s) = 0 THEN ""
  ELSE IF Len(s) = 1 THEN "\"" \o s[1] \o "\""
  ELSE "\"" \o s[1] \o "\"," \o JoinQuoted(Tail(s))

\* JSON.stringify of an array of (plain) strings.
JSONstringify(s) == "[" \o JoinQuoted(s) \o "]"

\* Boolean.prototype.toString
BoolToString(b) == IF b THEN "true" ELSE "false"

\* crypto.createHash("sha256").update(data).digest("hex"): a one-way digest,
\* taken to be collision-free (equal digests only for equal data).
sha256hex(data) == "sha256:" \o data

\* const data = ... in Auth.checksumTicket.
ChecksumData(ticket) ==
  ticket.user \o ticket.account \o JSONstringify(ticket.permissions)
    \o BoolToString(ticket.restricted) \o ToString(ticket.expiresAt)

\* Auth.checksumTicket that leaves restricted out of the digest.
checksumTicketNoRestricted(ticket) ==
  [f \in (DOMAIN ticket) \cup {"checksum"} |->
     IF f = "checksum"
     THEN sha256hex(ticket.user \o ticket.account
                      \o JSONstringify(ticket.permissions)
                      \o ToString(ticket.expiresAt))
     ELSE ticket[f]]

\* Auth.checksumTicket: sets ticket.checksum and returns the ticket.
checksumTicket(ticket) ==
  [f \in (DOMAIN ticket) \cup {"checksum"} |->
     IF f = "checksum" THEN sha256hex(ChecksumData(ticket)) ELSE ticket[f]]

\* Auth.verifyTicket that only looks for a checksum and never recomputes it.
verifyTicketPresenceOnly(ticket) ==
  IF ticket = Null \/ "checksum" \notin DOMAIN ticket THEN FALSE
  ELSE ticket.checksum # ""

\* Auth.verifyTicket that takes a ticket with an empty checksum for good.
verifyTicketUnsignedPasses(ticket) ==
  IF ticket = Null \/ "checksum" \notin DOMAIN ticket THEN FALSE
  ELSE IF ticket.checksum = "" THEN TRUE
  ELSE sha256hex(ChecksumData(ticket)) = ticket.checksum

\* Auth.verifyTicket: recomputes the digest with its own concatenation.
verifyTicket(ticket) ==
  IF ticket = Null \/ "checksum" \notin DOMAIN ticket THEN FALSE
  ELSE IF ticket.checksum = "" THEN FALSE
  ELSE LET computedHash ==
             sha256hex(ticket.user \o ticket.account
                         \o JSONstringify(ticket.permissions)
                         \o BoolToString(ticket.restricted)
                         \o ToString(ticket.expiresAt))
       IN computedHash = ticket.checksum

(***************************************************************************)
(* AccessGate: Auth.allow.  The result is TRUE (returned) or the K2Error   *)
(* thrown.                                                                 *)
(***************************************************************************)
Returned(value) == [returned |-> TRUE, value |-> value, error |-> NoError]
Thrown(error) == [returned |-> FALSE, value |-> FALSE, error |-> error]

\* trace || fallback
OrDefault(trace, fallback) == IF trace = "" THEN fallback ELSE trace

\* Auth.allow that first refuses a ticket Auth.verifyTicket does not accept.
allowVerified(ticket, permissions, trace) ==
  IF ~verifyTicket(ticket)
  THEN Thrown(K2Error("FORBIDDEN", OrDefault(trace, "fdezixsvfrg1xjqal6ar")))
  ELSE IF \E i \in 1..Len(permissions) :
             Includes(ticket.permissions, permissions[i])
       THEN Returned(TRUE)
       ELSE Thrown(K2Error("FORBIDDEN",
                           OrDefault(trace, "09ij3rc687wc0ltqbf6a")))

\* Auth.allow throwing with its own trace id whatever the caller supplied.
allowOwnTrace(ticket, permissions, trace) ==
  IF ticket = Null \/ "permissions" \notin DOMAIN ticket
  THEN Thrown(K2Error("FORBIDDEN", "fdezixsvfrg1xjqal6ar"))
  ELSE IF \E i \in 1..Len(permissions) :
             Includes(ticket.permissions, permissions[i])
       THEN Returned(TRUE)
       ELSE Thrown(K2Error("FORBIDDEN", "09ij3rc687wc0ltqbf6a"))

\* Auth.allow asking for every required permission instead of any one.
allowEvery(ticket, permissions, trace) ==
  IF ticket = Null \/ "permissions" \notin DOMAIN ticket
  THEN Thrown(K2Error("FORBIDDEN", OrDefault(trace, "fdezixsvfrg1xjqal6ar")))
  ELSE IF /\ Len(permissions) > 0
          /\ \A i \in 1..Len(permissions) :
               Includes(ticket.permissions, permissions[i])
       THEN Returned(TRUE)
       ELSE Thrown(K2Error("FORBIDDEN", OrDefault(trace, "09ij3rc687wc0ltqbf6a")))

allow(ticket, permissions, trace) ==
  IF ticket = Null \/ "permissions" \notin DOMAIN ticket
  THEN Thrown(K2Error("FORBIDDEN", OrDefault(trace, "fdezixsvfrg1xjqal6ar")))
  ELSE IF \E i \in 1..Len(permissions) :
             Includes(ticket.permissions, permissions[i])
       THEN Returned(TRUE)
       ELSE Thrown(K2Error("FORBIDDEN", OrDefault(trace, "09ij3rc687wc0ltqbf6a")))

(***************************************************************************)
(* TokenCodec: jsonwebtoken sign / verify as Auth uses them.               *)
(***************************************************************************)
NoToken == [kind |-> "none"]
Malformed == [kind |-> "malformed"]

\* The claims of a token in the order JSON.stringify writes them: the
\* payload's own properties, then iat and exp as jwt.sign adds them.
ClaimKeys == <<"userId", "roles", "restrictedMode", "iat", "exp">>

RECURSIVE EncodeFrom(_, _)
\* The token body from the i-th claim key on: one <<key, value>> entry per
\* property the claims object has; a property that is absent is not written.
EncodeFrom(claims, i) ==
  IF i > Len(ClaimKeys) THEN << >>
  ELSE IF ClaimKeys[i] \in DOMAIN claims
       THEN << <<ClaimKeys[i], claims[ClaimKeys[i]]>> >>
              \o EncodeFrom(claims, i + 1)
  ELSE EncodeFrom(claims, i + 1)

\* The body of a token: its claims serialised.
Encode(claims) == EncodeFrom(claims, 1)

\* The claims object parsed back from a token body.
Decode(body) ==
  [k \in {body[i][1] : i \in 1..Len(body)} |->
     body[CHOOSE i \in 1..Len(body) : body[i][1] = k][2]]

\* jwt.sign with an encoder that leaves out a claim whose value is false.
jwtSignDropsFalse(payload, secret, expiresIn, nowMs) ==
  LET kept == {k \in DOMAIN payload :
                 k # "restrictedMode" \/ payload.restrictedMode}
      claims == [k \in kept \cup {"iat", "exp"} |->
                   IF k = "iat" THEN nowMs \div 1000
                   ELSE IF k = "exp" THEN (nowMs \div 1000) + expiresIn
                   ELSE payload[k]]
  IN IF "exp" \in DOMAIN payload
     THEN Thrown(K2Error("Error", "Bad options.expiresIn"))
     ELSE Returned([kind |-> "jwt", secret |-> secret,
                    body |-> Encode(claims)])

\* jwt.sign(payload, secret, {expiresIn}) at time nowMs: a token whose body
\* holds the payload's properties plus iat and exp (seconds), signed with
\* secret.  jsonwebtoken refuses a payload that already has an exp property
\* when expiresIn is given ('Bad "options.expiresIn" option the payload
\* already has an "exp" property.'); a payload's own iat is kept as the
\* timestamp.
jwtSign(payload, secret, expiresIn, nowMs) ==
  LET timestamp == IF "iat" \in DOMAIN payload THEN payload.iat
                   ELSE nowMs \div 1000
      claims == [k \in DOMAIN payload \cup {"iat", "exp"} |->
                   IF k = "iat" THEN timestamp
                   ELSE IF k = "exp" THEN timestamp + expiresIn
                   ELSE payload[k]]
  IN IF "exp" \in DOMAIN payload
     THEN Thrown(K2Error("Error", "Bad options.expiresIn"))
     ELSE Returned([kind |-> "jwt", secret |-> secret,
                    body |-> Encode(claims)])

\* jwt.verify that does not compare the signature with the secret.
jwtVerifyAnySecret(token, secret, nowMs) ==
  IF token.kind # "jwt" THEN Thrown(K2Error("JsonWebTokenError", "jwt malformed"))
  ELSE IF (nowMs \div 1000) >= Decode(token.body).exp
       THEN Thrown(K2Error("TokenExpiredError", "jwt expired"))
  ELSE Returned(Decode(token.body))

\* jwt.verify(token, secret) at time nowMs: the claims, or the error thrown.
jwtVerify(token, secret, nowMs) ==
  IF token.kind # "jwt" THEN Thrown(K2Error("JsonWebTokenError", "jwt malformed"))
  ELSE IF token.secret # secret
       THEN Thrown(K2Error("JsonWebTokenError", "invalid signature"))
  ELSE IF (nowMs \div 1000) >= Decode(token.body).exp
       THEN Thrown(K2Error("TokenExpiredError", "jwt expired"))
  ELSE Returned(Decode(token.body))

\* Auth.generateTokens: payload is a TokenPayload, the claims of a verified
\* token, or Null for a payload that is not provided.
generateTokens(payload, nowMs) ==
  LET accessToken == jwtSign(payload, JWT_SECRET, JWT_EXPIRATION, nowMs)
      refreshToken ==
        jwtSign(payload, JWT_REFRESH_SECRET, JWT_REFRESH_EXPIRATION, nowMs)
  IN IF payload = Null
     THEN Thrown(K2Error("INVALID_TOKEN", "efo0gsdgy9smd3e3xhn1"))
     ELSE IF ~accessToken.returned THEN accessToken
     ELSE IF ~refreshToken.returned THEN refreshToken
     ELSE Returned([accessToken |-> accessToken.value,
                    refreshToken |-> refreshToken.value])

\* Auth.refreshTokens verifying against the secret of the access tokens.
refreshTokensAccessSecret(refreshToken, nowMs) ==
  LET verified == jwtVerify(refreshToken, JWT_SECRET, nowMs)
  IN IF refreshToken.kind = "none"
     THEN Thrown(K2Error("INVALID_TOKEN", "joyseq1qufiem09stojx"))
     ELSE IF ~verified.returned THEN Thrown(verified.error)
     ELSE generateTokens(verified.value, nowMs)

\* Auth.refreshTokens: the error jwt.verify throws is not caught, and the
\* verified claims (iat and exp included) are what generateTokens signs.
refreshTokens(refreshToken, nowMs) ==
  LET verified == jwtVerify(refreshToken, JWT_REFRESH_SECRET, nowMs)
  IN IF refreshToken.kind = "none"
     THEN Thrown(K2Error("INVALID_TOKEN", "joyseq1qufiem09stojx"))
     ELSE IF ~verified.returned THEN Thrown(verified.error)
     ELSE generateTokens(verified.value, nowMs)

\* A token signed with a secret that is not the server's.
Forged ==
  jwtSign(CHOOSE p \in Payloads : TRUE, "not_the_secret", JWT_EXPIRATION,
          0).value

\* The instants the clock shows.
Instants == {k * TickMillis : k \in 0..MaxTicks}

\* What a caller can present at time nowMs: nothing, garbage, a token signed
\* with a secret that is not the server's, or either token of a pair
\* generated at an earlier instant.
TokensAt(nowMs) ==
  {NoToken, Malformed, Forged}
    \cup UNION {{generateTokens(p, t).value.accessToken,
                 generateTokens(p, t).value.refreshToken} :
                  p \in Payloads, t \in {i \in Instants : i <= nowMs}}

TokenInputs == [t \in Instants |-> TokensAt(t)]

(***************************************************************************)
(* Auth.getSystemTicket                                                    *)
(***************************************************************************)
\* getSystemTicket handing out the admin permission as well.
getSystemTicketAdmin(nowMs) ==
  checksumTicket([user |-> "system", account |-> "system",
                  permissions |-> <<"system", "admin">>,
                  restricted |-> FALSE,
                  expiresAt |-> nowMs + ticketExpirationInMillis])

getSystemTicket(nowMs) ==
  checksumTicket([user |-> "system", account |-> "system",
                  permissions |-> <<"system">>, restricted |-> FALSE,
                  expiresAt |-> nowMs + ticketExpirationInMillis])

\* Tickets an Auth instance is constructed with: the system ticket, or the
\* ticket of an ordinary member.
InstanceTickets ==
  { getSystemTicket(0),
    checksumTicket([user |-> "u1", account |-> "acct-u1",
                    permissions |-> <<"member">>, restricted |-> FALSE,
                    expiresAt |-> ticketExpirationInMillis]) }

(***************************************************************************)
(* RolePermissionCache: Auth.cacheRoles / Auth.getRolePermissions.         *)
(***************************************************************************)
\* The object literal cacheRoles assigns to Auth.roles before the scan.
BootstrapRoles == [r \in {"system", "admin", "member"} |-> <<r>>]

RECURSIVE StoreRoles(_, _)
\* for (const role of result) Auth.roles[role._uuid] = role.permissions
StoreRoles(map, result) ==
  IF Len(result) = 0 THEN map
  ELSE StoreRoles((result[1]._uuid :> result[1].permissions) @@ map,
                  Tail(result))

RECURSIVE AddKeys(_, _)
\* map[permission] = true for each permission, keeping the insertion order
\* of the keys.
AddKeys(keys, permissions) ==
  IF Len(permissions) = 0 THEN keys
  ELSE AddKeys(IF Includes(keys, permissions[1]) THEN keys
               ELSE Append(keys, permissions[1]),
               Tail(permissions))

RECURSIVE CollectPermissions(_, _, _)
\* The loop of getRolePermissions over the role ids; keys is Object.keys(map).
CollectPermissions(keys, roleIds, map) ==
  IF Len(roleIds) = 0 THEN keys
  ELSE CollectPermissions(
         IF roleIds[1] \in DOMAIN map THEN AddKeys(keys, map[roleIds[1]])
         ELSE keys,
         Tail(roleIds), map)

\* Auth.getRolePermissions that stops at the first role id not in the map.
getRolePermissionsUntilUnknown(roleIds, map) ==
  LET known == {i \in 1..Len(roleIds) :
                  \A j \in 1..i : roleIds[j] \in DOMAIN map}
  IN CollectPermissions(<<>>, SubSeq(roleIds, 1, Cardinality(known)), map)

\* Auth.getRolePermissions once Auth.roles is set.
getRolePermissions(roleIds, map) == CollectPermissions(<<>>, roleIds, map)

(***************************************************************************)
(* AccountResolverCache: Auth.cacheUserAccount.                            *)
(***************************************************************************)
\* delete obj[key]
DeleteKey(obj, key) == [k \in (DOMAIN obj) \ {key} |-> obj[k]]

\* Auth.cacheUserAccount that evicts only once the buffer has outgrown the
\* capacity (> for >=).
cacheUserAccountLate(accounts, buffer, userId, accountId) ==
  LET full == Len(buffer) > MAX_USER_ACCOUNTS_BUFFER
      kept == IF full THEN DeleteKey(accounts, Head(buffer)) ELSE accounts
      rest == IF full THEN Tail(buffer) ELSE buffer
  IN [userAccounts |-> (userId :> accountId) @@ kept,
      userAccountsBuffer |-> Append(rest, userId)]

\* Auth.cacheUserAccount that evicts the newest entry (pop for shift).
cacheUserAccountPop(accounts, buffer, userId, accountId) ==
  LET full == Len(buffer) >= MAX_USER_ACCOUNTS_BUFFER
      kept == IF full THEN DeleteKey(accounts, buffer[Len(buffer)])
              ELSE accounts
      rest == IF full THEN SubSeq(buffer, 1, Len(buffer) - 1) ELSE buffer
  IN [userAccounts |-> (userId :> accountId) @@ kept,
      userAccountsBuffer |-> Append(rest, userId)]

\* Auth.cacheUserAccount: the map and the buffer after the call.
cacheUserAccount(accounts, buffer, userId, accountId) ==
  LET full == Len(buffer) >= MAX_USER_ACCOUNTS_BUFFER
      kept == IF full THEN DeleteKey(accounts, Head(buffer)) ELSE accounts
      rest == IF full THEN Tail(buffer) ELSE buffer
  IN [userAccounts |-> (userId :> accountId) @@ kept,
      userAccountsBuffer |-> Append(rest, userId)]

(***************************************************************************)
(* State.                                                                  *)
(***************************************************************************)
VARIABLES
  rolesDefined,        \* Auth.roles is not undefined
  roles,               \* Auth.roles: role id -> permissions
  userAccounts,        \* Auth.userAccounts: user id -> account id
  userAccountsBuffer,  \* Auth.userAccountsBuffer: user ids, oldest first
  dbRoles,             \* the _roles collection
  dbAccounts,          \* the _accounts collection, by owner
  now,                 \* Date.now()
  call,                \* the getTicket calls in flight
  systemTicket,        \* the ticket the last getSystemTicket() returned
  gate,                \* the last Auth.allow call: arguments and result
  guard,               \* a stamped ticket, the ticket as presented later,
                       \* and what Auth.verifyTicket said of it
  history,             \* observer: the user ids in the order in which
                       \* cacheUserAccount was called for them
  codec,               \* the last Auth.generateTokens and Auth.refreshTokens
                       \* calls: their arguments, instants and outcomes
  dbUsers,             \* the _users collection, by _uuid
  dbUserRoles,         \* the userRoles field of the _accounts documents, by
                       \* _uuid of the account
  request              \* the last call of a User, Account or Role method:
                       \* arguments, storage accesses in order, outcome

vars == << rolesDefined, roles, userAccounts, userAccountsBuffer, dbRoles,
           dbAccounts, now, call, systemTicket, gate, guard, history, codec,
           dbUsers, dbUserRoles, request >>

caches == << rolesDefined, roles, userAccounts, userAccountsBuffer >>
storage == << dbRoles, dbAccounts >>
dataLayer == << dbUsers, dbUserRoles, request >>
aside == << systemTicket, gate, guard, history, codec, dataLayer >>

NoGate ==
  [called |-> FALSE, ticket |-> Null, permissions |-> <<>>, trace |-> "",
   result |-> Thrown(NoError)]

NoGuard ==
  [original |-> Null, presented |-> Null, checked |-> FALSE,
   verified |-> FALSE]

\* No generateTokens call and no refreshTokens call yet.
NoGenerated ==
  [called |-> FALSE, payload |-> Null, at |-> 0, result |-> Thrown(NoError)]

NoRefreshed ==
  [called |-> FALSE, token |-> NoToken, at |-> 0, result |-> Thrown(NoError)]

\* What the observer notes of the token a getTicket call was given: the
\* token and the instant of jwt.verify.
NoSeen == [token |-> NoToken, at |-> 0]

\* No User, Account or Role method called yet.
NoRequest ==
  [op |-> "none", ticket |-> Null, args |-> << >>, gate |-> Thrown(NoError),
   accesses |-> << >>, result |-> Thrown(NoError)]

\* A call slot no getTicket is running in.
IdleCall ==
  [pc |-> "idle", inst |-> Null, payload |-> NoPayload, permissions |-> <<>>,
   accountId |-> "", hit |-> FALSE, roleScans |-> 0, accountLookups |-> 0,
   ticket |-> Null,
   error |-> NoError, seen |-> NoSeen]

Init ==
  /\ rolesDefined = FALSE
  /\ roles = << >>
  /\ userAccounts = << >>
  /\ userAccountsBuffer = << >>
  /\ dbRoles = StoredRoles
  /\ dbAccounts = StoredAccounts
  /\ now = 0
  /\ call = [c \in Calls |-> IdleCall]
  /\ systemTicket = Null
  /\ gate = NoGate
  /\ guard = NoGuard
  /\ history = [on |-> FALSE, inserts |-> << >>]
  /\ codec = [on |-> FALSE, generated |-> NoGenerated,
              refreshed |-> NoRefreshed]
  /\ dbUsers = StoredUsers
  /\ dbUserRoles = StoredUserRoles
  /\ request = NoRequest

\* The observer notes an insertion; it stops observing after MaxInserts.
Record(h, userId) ==
  IF h.on /\ Len(h.inserts) < MaxInserts
  THEN [h EXCEPT !.inserts = Append(@, userId)]
  ELSE [on |-> FALSE, inserts |-> << >>]

\* The call ends with the error thrown; the caller gets nothing else.
Fail(c, rec, error) ==
  call' = [call EXCEPT ![c] =
             [IdleCall EXCEPT !.pc = "failed", !.error = error,
                              !.roleScans = rec.roleScans,
                              !.accountLookups = rec.accountLookups,
                              !.seen = rec.seen]]

(***************************************************************************)
(* Auth.getTicket, one action per stretch of code that runs without        *)
(* suspending.                                                             *)
(***************************************************************************)
\* getTicket that sets Auth.roles to the bootstrap map before it looks at
\* the token.
GetTicketStartEager(c, inst, token) ==
  /\ call[c].pc = "idle"
  /\ LET rec == [IdleCall EXCEPT
                   !.inst = inst,
                   !.seen = IF codec.on THEN [token |-> token, at |-> now]
                            ELSE NoSeen]
         verified == jwtVerify(token, JWT_SECRET, now)
         gated == allow(inst, <<"system", "admin">>, "4i1kmtty4werovebx4ox")
     IN IF token.kind = "none"
        THEN /\ Fail(c, rec, K2Error("INVALID_TOKEN", "x34evca67aq8gr3hiu1u"))
             /\ rolesDefined' = TRUE
             /\ roles' = IF rolesDefined THEN roles ELSE BootstrapRoles
        ELSE IF ~verified.returned
        THEN /\ Fail(c, rec,
                     IF verified.error.code = "TokenExpiredError"
                     THEN K2Error("INVALID_TOKEN", "aoapi6lrv4m8rti6c7wq")
                     ELSE K2Error("INVALID_TOKEN", "l2u8lwwbiiam7gfdsw5m"))
             /\ rolesDefined' = TRUE
             /\ roles' = IF rolesDefined THEN roles ELSE BootstrapRoles
        ELSE LET payload == verified.value
                 got == [rec EXCEPT !.payload = payload]
             IN IF ~rolesDefined
                THEN \* cacheRoles: the map is assigned before the scan
                     /\ rolesDefined' = TRUE
                     /\ roles' = BootstrapRoles
                     /\ IF ~gated.returned
                        THEN Fail(c, got, gated.error)
                        ELSE call' = [call EXCEPT ![c] =
                               [got EXCEPT !.pc = "awaitRoles", !.roleScans = 1]]
                ELSE /\ call' = [call EXCEPT ![c] =
                          [got EXCEPT !.pc = "resolveAccount",
                             !.permissions =
                                getRolePermissions(payload.roles, roles)]]
                     /\ UNCHANGED << rolesDefined, roles >>
  /\ UNCHANGED << userAccounts, userAccountsBuffer, storage, now, aside >>

\* getTicket(token) on an Auth instance constructed with ticket inst, up to
\* its first suspension: the token check, jwt.verify, and getRolePermissions
\* as far as it runs synchronously (all of it when Auth.roles is set; up to
\* the scan issued by cacheRoles when it is not).
GetTicketStart(c, inst, token) ==
  /\ call[c].pc = "idle"
  /\ LET rec == [IdleCall EXCEPT
                   !.inst = inst,
                   !.seen = IF codec.on THEN [token |-> token, at |-> now]
                            ELSE NoSeen]
         verified == jwtVerify(token, JWT_SECRET, now)
         gated == allow(inst, <<"system", "admin">>, "4i1kmtty4werovebx4ox")
     IN IF token.kind = "none"
        THEN /\ Fail(c, rec, K2Error("INVALID_TOKEN", "x34evca67aq8gr3hiu1u"))
             /\ UNCHANGED << rolesDefined, roles >>
        ELSE IF ~verified.returned
        THEN /\ Fail(c, rec,
                     IF verified.error.code = "TokenExpiredError"
                     THEN K2Error("INVALID_TOKEN", "aoapi6lrv4m8rti6c7wq")
                     ELSE K2Error("INVALID_TOKEN", "l2u8lwwbiiam7gfdsw5m"))
             /\ UNCHANGED << rolesDefined, roles >>
        ELSE LET payload == verified.value
                 got == [rec EXCEPT !.payload = payload]
             IN IF ~rolesDefined
                THEN \* cacheRoles: the map is assigned before the scan
                     /\ rolesDefined' = TRUE
                     /\ roles' = BootstrapRoles
                     /\ IF ~gated.returned
                        THEN Fail(c, got, gated.error)
                        ELSE call' = [call EXCEPT ![c] =
                               [got EXCEPT !.pc = "awaitRoles", !.roleScans = 1]]
                ELSE /\ call' = [call EXCEPT ![c] =
                          [got EXCEPT !.pc = "resolveAccount",
                             !.permissions =
                                getRolePermissions(payload.roles, roles)]]
                     /\ UNCHANGED << rolesDefined, roles >>
  /\ UNCHANGED << userAccounts, userAccountsBuffer, storage, now, aside >>

\* rolesAPI.find({}) returns: cacheRoles stores every role of the result.
RoleScanReturns(c) ==
  /\ call[c].pc = "awaitRoles"
  /\ roles' = StoreRoles(roles, dbRoles)
  /\ call' = [call EXCEPT ![c].pc = "rolesCached"]
  /\ UNCHANGED << rolesDefined, userAccounts, userAccountsBuffer, storage,
                  now, aside >>

\* rolesAPI.find({}) fails: Role.find wraps the storage error.
RoleScanFails(c) ==
  /\ call[c].pc = "awaitRoles"
  /\ Fail(c, call[c], K2Error("SERVICE_ERROR", "miiwrp553251te51e40p"))
  /\ UNCHANGED << caches, storage, now, aside >>

\* getRolePermissions resumes after cacheRoles and collects the permissions.
CollectRolePermissions(c) ==
  /\ call[c].pc = "rolesCached"
  /\ call' = [call EXCEPT ![c].pc = "resolveAccount",
                          ![c].permissions =
                             getRolePermissions(call[c].payload.roles, roles)]
  /\ UNCHANGED << caches, storage, now, aside >>

\* getUserAccount that moves a user found in the cache to the back of the
\* buffer (a recency bump).
ResolveAccountBump(c) ==
  /\ call[c].pc = "resolveAccount"
  /\ LET userId == call[c].payload.userId
         gated == allow(call[c].inst, <<"system", "admin">>,
                        "m9cnhmxkft3rkkasfkgf")
     IN IF userId \in DOMAIN userAccounts
        THEN /\ call' = [call EXCEPT ![c].pc = "assemble", ![c].hit = TRUE,
                                     ![c].accountId = userAccounts[userId]]
             /\ userAccountsBuffer' =
                  Append(SelectSeq(userAccountsBuffer,
                                   LAMBDA u : u # userId), userId)
        ELSE /\ IF ~gated.returned
                THEN Fail(c, call[c], gated.error)
                ELSE call' = [call EXCEPT ![c].pc = "awaitAccount",
                                          ![c].accountLookups = @ + 1]
             /\ UNCHANGED userAccountsBuffer
  /\ UNCHANGED << rolesDefined, roles, userAccounts, storage, now, aside >>

\* getUserAccount up to its suspension: a cached account is returned at once;
\* otherwise accountAPI.findOne passes its gate and queries storage.
ResolveAccount(c) ==
  /\ call[c].pc = "resolveAccount"
  /\ LET userId == call[c].payload.userId
         gated == allow(call[c].inst, <<"system", "admin">>,
                       "m9cnhmxkft3rkkasfkgf")
     IN IF userId \in DOMAIN userAccounts
        THEN call' = [call EXCEPT ![c].pc = "assemble", ![c].hit = TRUE,
                                  ![c].accountId = userAccounts[userId]]
        ELSE IF ~gated.returned
        THEN Fail(c, call[c], gated.error)
        ELSE call' = [call EXCEPT ![c].pc = "awaitAccount",
                                  ![c].accountLookups = @ + 1]
  /\ UNCHANGED << caches, storage, now, aside >>

\* db.findOne returns, with an Account.findOne that hands back null for no
\* account, so that getUserAccount throws its own plain Error.
AccountLookupReturnsNull(c) ==
  /\ call[c].pc = "awaitAccount"
  /\ LET userId == call[c].payload.userId
     IN IF userId \in DOMAIN dbAccounts
        THEN LET cached == cacheUserAccount(userAccounts, userAccountsBuffer,
                                            userId, dbAccounts[userId])
             IN /\ userAccounts' = cached.userAccounts
                /\ userAccountsBuffer' = cached.userAccountsBuffer
                /\ call' = [call EXCEPT ![c].pc = "assemble",
                                        ![c].accountId = dbAccounts[userId]]
                /\ history' = Record(history, userId)
        ELSE /\ Fail(c, call[c], K2Error("Error", "User account not found"))
             /\ UNCHANGED << userAccounts, userAccountsBuffer, history >>
  /\ UNCHANGED << rolesDefined, roles, storage, now, systemTicket, gate,
                  guard, codec, dataLayer >>

\* db.findOne returns: an account is cached and returned, no account is
\* NOT_FOUND.
AccountLookupReturns(c) ==
  /\ call[c].pc = "awaitAccount"
  /\ LET userId == call[c].payload.userId
     IN IF userId \in DOMAIN dbAccounts
        THEN LET cached == cacheUserAccount(userAccounts, userAccountsBuffer,
                                            userId, dbAccounts[userId])
             IN /\ userAccounts' = cached.userAccounts
                /\ userAccountsBuffer' = cached.userAccountsBuffer
                /\ call' = [call EXCEPT ![c].pc = "assemble",
                                        ![c].accountId = dbAccounts[userId]]
                /\ history' = Record(history, userId)
        ELSE /\ Fail(c, call[c],
                     K2Error("NOT_FOUND", "s6v5wnchZZu5gjqw763x"))
             /\ UNCHANGED << userAccounts, userAccountsBuffer, history >>
  /\ UNCHANGED << rolesDefined, roles, storage, now, systemTicket, gate,
                  guard, codec, dataLayer >>

\* db.findOne fails: Account.findOne lets the storage error through.
AccountLookupFails(c) ==
  /\ call[c].pc = "awaitAccount"
  /\ \E code \in {"SERVICE_ERROR", "Error"} :
       Fail(c, call[c], K2Error(code, "storage"))
  /\ UNCHANGED << caches, storage, now, aside >>

\* getTicket assembling a ticket that does not outlive the token.
AssembleTicketCapped(c) ==
  /\ call[c].pc = "assemble"
  /\ call' = [call EXCEPT ![c].pc = "done", ![c].inst = Null,
                          ![c].ticket = checksumTicket(
                             [user |-> call[c].payload.userId,
                              account |-> call[c].accountId,
                              permissions |-> call[c].permissions,
                              restricted |-> call[c].payload.restrictedMode,
                              expiresAt |->
                                IF now + ticketExpirationInMillis
                                     > call[c].payload.exp * 1000
                                THEN call[c].payload.exp * 1000
                                ELSE now + ticketExpirationInMillis])]
  /\ UNCHANGED << caches, storage, now, aside >>

\* getTicket resumes with the account id, assembles the ticket and stamps it.
AssembleTicket(c) ==
  /\ call[c].pc = "assemble"
  /\ call' = [call EXCEPT ![c].pc = "done", ![c].inst = Null,
                          ![c].ticket = checksumTicket(
                             [user |-> call[c].payload.userId,
                              account |-> call[c].accountId,
                              permissions |-> call[c].permissions,
                              restricted |-> call[c].payload.restrictedMode,
                              expiresAt |-> now + ticketExpirationInMillis])]
  /\ UNCHANGED << caches, storage, now, aside >>

\* The caller has taken the result; the slot is free for the next call.
Finish(c) ==
  /\ call[c].pc \in {"done", "failed"}
  /\ call' = [call EXCEPT ![c] = IdleCall]
  /\ UNCHANGED << caches, storage, now, aside >>

\* getSystemTicket that sets up the role map on its way.
GetSystemTicketCachesRoles ==
  /\ systemTicket' = getSystemTicket(now)
  /\ rolesDefined' = TRUE
  /\ roles' = BootstrapRoles
  /\ UNCHANGED << userAccounts, userAccountsBuffer, storage, now, call, gate,
                  guard, history, codec, dataLayer >>

\* Auth.getSystemTicket()
GetSystemTicket ==
  /\ systemTicket' = getSystemTicket(now)
  /\ UNCHANGED << caches, storage, now, call, gate, guard, history, codec,
                  dataLayer >>

\* Time passes.
Tick ==
  /\ now < MaxTicks * TickMillis
  /\ now' = now + TickMillis
  /\ UNCHANGED << caches, storage, call, aside >>

Step(c) ==
  \/ \E inst \in InstanceTickets, token \in TokenInputs[now] :
       GetTicketStart(c, inst, token)
  \/ RoleScanReturns(c)
  \/ RoleScanFails(c)
  \/ CollectRolePermissions(c)
  \/ ResolveAccount(c)
  \/ AccountLookupReturns(c)
  \/ AccountLookupFails(c)
  \/ AssembleTicket(c)
  \/ Finish(c)

\* Any number of getTicket calls in flight, interleaved at their suspensions.
Next ==
  \/ \E c \in Calls : Step(c)
  \/ Tick

Spec == Init /\ [][Next]_vars

\* Sequential use: a getTicket call starts only when no other is in flight;
\* getSystemTicket is called between the calls.
SeqNext ==
  \/ \E c \in Calls : (\A d \in Calls \ {c} : call[d].pc = "idle") /\ Step(c)
  \/ GetSystemTicket
  \/ Tick

\* In sequential use the observer records the insertions.
SeqInit ==
  /\ rolesDefined = FALSE
  /\ roles = << >>
  /\ userAccounts = << >>
  /\ userAccountsBuffer = << >>
  /\ dbRoles = StoredRoles
  /\ dbAccounts = StoredAccounts
  /\ now = 0
  /\ call = [c \in Calls |-> IdleCall]
  /\ systemTicket = Null
  /\ gate = NoGate
  /\ guard = NoGuard
  /\ history = [on |-> TRUE, inserts |-> << >>]
  /\ codec = [on |-> FALSE, generated |-> NoGenerated,
              refreshed |-> NoRefreshed]
  /\ dbUsers = StoredUsers
  /\ dbUserRoles = StoredUserRoles
  /\ request = NoRequest

SeqSpec == SeqInit /\ [][SeqNext]_vars

(***************************************************************************)
(* Token issue, refresh and verification by one caller: the tokens shown   *)
(* to getTicket and to refreshTokens are those generateTokens issued.      *)
(***************************************************************************)
\* What generateTokens is called with: the payload of an unrestricted user,
\* that of a restricted user, or none.
PayloadInputs ==
  {p \in Payloads : p.userId \in {"u1", "u2"} /\ p.roles = UserRoles(p.userId)}
    \cup {Null}

\* What the caller holds: nothing, garbage, a forged token, and the pair of
\* the last generateTokens call.
HeldTokens ==
  {NoToken, Malformed, Forged}
    \cup (IF codec.generated.result.returned
          THEN {codec.generated.result.value.accessToken,
                codec.generated.result.value.refreshToken}
          ELSE {})

\* Auth.generateTokens(payload)
GenerateTokens(payload) ==
  /\ codec' = [codec EXCEPT
                 !.generated = [called |-> TRUE, payload |-> payload,
                                at |-> now,
                                result |-> generateTokens(payload, now)],
                 !.refreshed = NoRefreshed]
  /\ UNCHANGED << caches, storage, now, call, systemTicket, gate, guard,
                  history, dataLayer >>

\* Auth.refreshTokens(refreshToken)
RefreshTokens(refreshToken) ==
  /\ codec' = [codec EXCEPT
                 !.refreshed = [called |-> TRUE, token |-> refreshToken,
                                at |-> now,
                                result |-> refreshTokens(refreshToken, now)]]
  /\ UNCHANGED << caches, storage, now, call, systemTicket, gate, guard,
                  history, dataLayer >>

\* Time passes while a token is held or a lookup is suspended.
WaitMillis == TickMillis \div 2

Wait ==
  /\ now + WaitMillis <= MaxTicks * TickMillis
  /\ now' = now + WaitMillis
  /\ UNCHANGED << caches, storage, call, aside >>

\* The caller's slot.
Caller == CHOOSE c \in Calls : TRUE

\* One caller, on an Auth constructed with the system ticket: it issues,
\* refreshes and presents tokens one call after the other.
TokenNext ==
  \/ \E payload \in PayloadInputs :
       call[Caller].pc = "idle" /\ GenerateTokens(payload)
  \/ \E token \in HeldTokens :
       call[Caller].pc = "idle" /\ RefreshTokens(token)
  \/ \E token \in HeldTokens :
       GetTicketStart(Caller, getSystemTicket(0), token)
  \/ RoleScanReturns(Caller)
  \/ RoleScanFails(Caller)
  \/ CollectRolePermissions(Caller)
  \/ ResolveAccount(Caller)
  \/ AccountLookupReturns(Caller)
  \/ AccountLookupFails(Caller)
  \/ AssembleTicket(Caller)
  \/ Finish(Caller)
  \/ Wait

TokenInit ==
  /\ rolesDefined = FALSE
  /\ roles = << >>
  /\ userAccounts = << >>
  /\ userAccountsBuffer = << >>
  /\ dbRoles = StoredRoles
  /\ dbAccounts = StoredAccounts
  /\ now = 0
  /\ call = [c \in Calls |-> IdleCall]
  /\ systemTicket = Null
  /\ gate = NoGate
  /\ guard = NoGuard
  /\ history = [on |-> FALSE, inserts |-> << >>]
  /\ codec = [on |-> TRUE, generated |-> NoGenerated,
              refreshed |-> NoRefreshed]
  /\ dbUsers = StoredUsers
  /\ dbUserRoles = StoredUserRoles
  /\ request = NoRequest

TokenSpec == TokenInit /\ [][TokenNext]_vars

(***************************************************************************)
(* Properties of getTicket and the two caches.                             *)
(***************************************************************************)
NoDuplicates(s) == \A i, j \in 1..Len(s) : s[i] = s[j] => i = j

\* The union of the permission sets the map holds for the given role ids.
RoleUnion(roleIds, map) ==
  UNION {ToSet(map[r]) : r \in ToSet(roleIds) \cap DOMAIN map}

\* The role map one complete population builds from storage.
PopulatedRoles == StoreRoles(BootstrapRoles, dbRoles)

\* The same role ids in every order.
Reorderings(s) ==
  {[i \in 1..Len(s) |-> s[f[i]]] :
     f \in {g \in [1..Len(s) -> 1..Len(s)] :
              \A i, j \in 1..Len(s) : g[i] = g[j] => i = j}}

\* C3: In sequential use the permissions of the ticket getTicket returns are,
\* as a set, the deduplicated union of the permission sets of every role id
\* of the payload that the role map knows; system, admin and member each
\* contribute themselves; unknown ids contribute nothing and raise no
\* error; the set does not depend on the order of the role ids.
C3_PermissionsAreUnion ==
  \A c \in Calls :
    call[c].pc = "done" =>
      /\ rolesDefined
      /\ \A b \in {"system", "admin", "member"} : roles[b] = <<b>>
      /\ ToSet(call[c].ticket.permissions)
           = RoleUnion(call[c].payload.roles, roles)
      /\ NoDuplicates(call[c].ticket.permissions)
      /\ \A r \in Reorderings(call[c].payload.roles) :
           ToSet(getRolePermissions(r, roles))
             = ToSet(call[c].ticket.permissions)

\* C3 witness: a ticket for the role ids ghost (unknown), r1 (stored) and
\* member (bootstrap), resolved against the populated map.
C3_Witness ==
  \E c \in Calls :
    /\ call[c].pc = "done"
    /\ call[c].payload.roles = <<"ghost", "r1", "member">>
    /\ roles = PopulatedRoles
    /\ call[c].ticket.permissions = <<"read", "member">>

\* C4: Concurrent first-time population is harmless: a getTicket call that
\* runs while the first role scan is suspended returns the full union of
\* the stored permissions of its role ids (it does not resolve against a
\* partially populated map).
C4_ConcurrentPopulationHarmless ==
  \A c \in Calls :
    (call[c].pc = "done" /\ \E d \in Calls : call[d].pc = "awaitRoles")
      => ToSet(call[c].ticket.permissions)
           = RoleUnion(call[c].payload.roles, PopulatedRoles)

\* The ticket carries the digest of its own contents and verifies.
FreshlyStamped(ticket) ==
  /\ "checksum" \in DOMAIN ticket
  /\ ticket.checksum # ""
  /\ ticket.checksum = sha256hex(ChecksumData(ticket))
  /\ verifyTicket(ticket)

\* C5: Every ticket returned by getTicket or by getSystemTicket carries a
\* checksum equal to the digest of that ticket at the moment it is
\* returned, so verifyTicket on it is true.
C5_ReturnedTicketsVerify ==
  /\ \A c \in Calls : call[c].pc = "done" => FreshlyStamped(call[c].ticket)
  /\ systemTicket # Null => FreshlyStamped(systemTicket)

\* C5 witness: getTicket has returned a ticket of a restricted user and
\* getSystemTicket has returned one.
C5_Witness ==
  /\ \E c \in Calls :
       /\ call[c].pc = "done"
       /\ call[c].ticket.restricted
       /\ call[c].ticket.user = call[c].payload.userId
  /\ systemTicket # Null

\* The last n elements of a sequence.
LastN(s, n) ==
  IF Len(s) <= n THEN s ELSE SubSeq(s, Len(s) - n + 1, Len(s))

\* C8: Strict FIFO eviction. In sequential use the cache holds exactly the
\* last `capacity` users inserted, oldest first, each with its account:
\* after capacity+1 distinct users the first-inserted one is gone and the
\* others are cached; a storage lookup is made only for a user that is not
\* cached.
C8_StrictFifo ==
  /\ history.on =>
       /\ userAccountsBuffer
            = LastN(history.inserts, MAX_USER_ACCOUNTS_BUFFER)
       /\ NoDuplicates(userAccountsBuffer)
       /\ DOMAIN userAccounts = ToSet(userAccountsBuffer)
       /\ \A u \in DOMAIN userAccounts : userAccounts[u] = dbAccounts[u]
  /\ \A c \in Calls :
       call[c].pc = "awaitAccount"
         => call[c].payload.userId \notin DOMAIN userAccounts

\* C8 witness: capacity+1 distinct users were inserted; the first is no
\* longer cached, the others are, and one of them is served from the cache.
C8_Witness ==
  /\ history.on
  /\ Len(history.inserts) = MAX_USER_ACCOUNTS_BUFFER + 1
  /\ NoDuplicates(history.inserts)
  /\ history.inserts[1] \notin DOMAIN userAccounts
  /\ \A i \in 2..Len(history.inserts) :
       history.inserts[i] \in DOMAIN userAccounts
  /\ \E c \in Calls :
       /\ call[c].pc = "done"
       /\ call[c].hit
       /\ call[c].accountLookups = 0

\* C9: A cache hit is read-only: resolving a cached user returns the cached
\* account without a storage lookup and leaves the map and the buffer
\* unchanged (no recency bump).
C9_HitIsReadOnly ==
  [][\A c \in Calls :
       (/\ call[c].pc = "resolveAccount"
        /\ call[c].payload.userId \in DOMAIN userAccounts
        /\ call'[c] # call[c])
         => /\ call'[c].pc = "assemble"
            /\ call'[c].accountId = userAccounts[call[c].payload.userId]
            /\ call'[c].accountLookups = 0
            /\ userAccounts' = userAccounts
            /\ userAccountsBuffer' = userAccountsBuffer]_vars

\* C9 witness: a user that is not the newest entry of a full buffer has
\* been resolved from the cache.
C9_Witness ==
  \E c \in Calls :
    /\ call[c].pc = "assemble"
    /\ call[c].hit
    /\ call[c].accountLookups = 0
    /\ Len(userAccountsBuffer) = MAX_USER_ACCOUNTS_BUFFER
    /\ userAccountsBuffer[1] = call[c].payload.userId
    /\ call[c].accountId = userAccounts[call[c].payload.userId]

\* C10: Eviction and insertion are atomic as a unit under concurrency: in
\* every reachable state the buffer contains exactly the keys of the map,
\* each exactly once.
C10_BufferMatchesMap ==
  /\ NoDuplicates(userAccountsBuffer)
  /\ ToSet(userAccountsBuffer) = DOMAIN userAccounts

(***************************************************************************)
(* The permission gate on its own: Auth.allow applied to tickets and       *)
(* required lists.                                                         *)
(***************************************************************************)
\* Permission lists of the tickets presented to the gate.
PermissionLists ==
  { <<>>, <<"read">>, <<"read", "write">>, <<"member">>, <<"admin">>,
    <<"system">>, <<"admin", "system">>, <<"system", "read">> }

\* Tickets presented to the gate: none, one without a permission set, the
\* system ticket, and stamped tickets with each permission list.
GateTickets ==
  {Null, [user |-> "u1", account |-> "acct-u1"]}
    \cup {getSystemTicket(t) : t \in Instants}
    \cup {checksumTicket([user |-> "u1", account |-> "acct-u1",
                          permissions |-> ps, restricted |-> FALSE,
                          expiresAt |-> ticketExpirationInMillis]) :
            ps \in PermissionLists}

\* Required lists: the ones the call sites pass, and lists without "system".
RequiredLists ==
  { <<>>, <<"system">>, <<"system", "admin">>, <<"admin">>, <<"read">>,
    <<"exec", "write">>, <<"write", "read">> }

\* Trace ids: none supplied, or a call site's.
TraceIds == {"", "uqg1tpsptlm2c4jwj0f7"}

\* Auth.allow that sets up the role map of Auth when it is not set.
AllowLoadsRoles(ticket, permissions, trace) ==
  /\ gate' = [called |-> TRUE, ticket |-> ticket, permissions |-> permissions,
              trace |-> trace, result |-> allow(ticket, permissions, trace)]
  /\ rolesDefined' = TRUE
  /\ roles' = IF rolesDefined THEN roles ELSE BootstrapRoles
  /\ UNCHANGED << userAccounts, userAccountsBuffer, storage, now, call,
                  systemTicket, guard, history, codec, dataLayer >>

\* Auth.allow(ticket, permissions, trace)
Allow(ticket, permissions, trace) ==
  /\ gate' = [called |-> TRUE, ticket |-> ticket, permissions |-> permissions,
              trace |-> trace, result |-> allow(ticket, permissions, trace)]
  /\ UNCHANGED << caches, storage, now, call, systemTicket, guard, history,
                  codec, dataLayer >>

GateNext ==
  \E ticket \in GateTickets, permissions \in RequiredLists, trace \in TraceIds :
    Allow(ticket, permissions, trace)

GateSpec == Init /\ [][GateNext]_vars

\* The ticket given to the last Auth.allow call has a permission set.
GateHasPermissions ==
  gate.called /\ gate.ticket # Null /\ "permissions" \in DOMAIN gate.ticket

\* C1: System bypass. For every ticket whose permissions contain "system"
\* and every required list (the empty list and lists without "system"
\* included), Auth.allow returns true and never fails with Forbidden.
C1_SystemBypass ==
  (GateHasPermissions /\ Includes(gate.ticket.permissions, "system"))
    => (gate.result.returned /\ gate.result.value = TRUE)

\* C2: OR semantics. For every ticket with a permission set that does not
\* contain "system" and every required list, Auth.allow returns true iff at
\* least one required permission is in ticket.permissions; otherwise (the
\* empty required list included) it fails with Forbidden.
C2_OrSemantics ==
  (GateHasPermissions /\ ~Includes(gate.ticket.permissions, "system"))
    => LET common == ToSet(gate.ticket.permissions) \cap ToSet(gate.permissions)
       IN /\ gate.result.returned <=> (common # {})
          /\ gate.result.returned => gate.result.value = TRUE
          /\ ~gate.result.returned => gate.result.error.code = "FORBIDDEN"

\* C2 witness: a ticket without "system" is let through on the second of two
\* required permissions, the first of which it lacks.
C2_Witness ==
  /\ GateHasPermissions
  /\ ~Includes(gate.ticket.permissions, "system")
  /\ Len(gate.permissions) = 2
  /\ ~Includes(gate.ticket.permissions, gate.permissions[1])
  /\ Includes(gate.ticket.permissions, gate.permissions[2])
  /\ gate.result.returned
  /\ gate.result.value = TRUE

(***************************************************************************)
(* The checksum on its own: a ticket is stamped, its holder changes fields *)
(* without re-stamping, and the ticket is verified.                        *)
(***************************************************************************)
\* Tickets as getTicket and getSystemTicket assemble them, before stamping.
AssembledTickets ==
  [user : {"u1"}, account : {"acct-u1"},
   permissions : {<<"read", "write">>, <<>>}, restricted : BOOLEAN,
   expiresAt : {ticketExpirationInMillis}]
    \cup {[user |-> "system", account |-> "system",
           permissions |-> <<"system">>, restricted |-> FALSE,
           expiresAt |-> ticketExpirationInMillis]}

\* The fields the Ticket type declares besides checksum.
TicketFields ==
  {"user", "account", "permissions", "restricted", "expiresAt", "token"}

\* The fields Auth.checksumTicket reads.
StampedFields == {"user", "account", "permissions", "restricted", "expiresAt"}

\* Values a holder can write into a field.
FieldValues(f) ==
  CASE f = "user" -> {"u1", "u2", "u"}
    [] f = "account" -> {"acct-u1", "acct-u2", "1acct-u1"}
    [] f = "permissions" ->
         {<<"read", "write">>, <<"write", "read">>, <<"read">>, <<>>,
          <<"read", "write", "system">>}
    [] f = "restricted" -> BOOLEAN
    [] f = "expiresAt" ->
         {ticketExpirationInMillis, TickMillis + ticketExpirationInMillis,
          10 * ticketExpirationInMillis}
    [] f = "token" -> {"eyJhbGciOi"}

\* ticket[f] = value
SetField(ticket, f, value) ==
  [g \in (DOMAIN ticket) \cup {f} |-> IF g = f THEN value ELSE ticket[g]]

\* Auth.checksumTicket(ticket): the holder receives the stamped ticket.
Stamp(ticket) ==
  /\ guard' = [original |-> checksumTicket(ticket),
               presented |-> checksumTicket(ticket),
               checked |-> FALSE, verified |-> FALSE]
  /\ UNCHANGED << caches, storage, now, call, systemTicket, gate, history,
                  codec, dataLayer >>

\* The holder assigns one field of the ticket and does not re-stamp it.
Mutate(f, value) ==
  /\ guard.original # Null
  /\ f \in DOMAIN guard.presented => guard.presented[f] # value
  /\ guard' = [guard EXCEPT !.presented = SetField(@, f, value),
                            !.checked = FALSE, !.verified = FALSE]
  /\ UNCHANGED << caches, storage, now, call, systemTicket, gate, history,
                  codec, dataLayer >>

\* Auth.verifyTicket(ticket) on the ticket as presented.
Verify ==
  /\ guard.original # Null
  /\ guard' = [guard EXCEPT !.checked = TRUE,
                            !.verified = verifyTicket(guard.presented)]
  /\ UNCHANGED << caches, storage, now, call, systemTicket, gate, history,
                  codec, dataLayer >>

GuardNext ==
  \/ \E ticket \in AssembledTickets : Stamp(ticket)
  \/ \E f \in TicketFields : \E value \in FieldValues(f) : Mutate(f, value)
  \/ Verify

GuardSpec == Init /\ [][GuardNext]_vars

\* The fields in which the presented ticket differs from the stamped one.
ChangedFields ==
  {f \in TicketFields :
     \/ (f \in DOMAIN guard.presented) # (f \in DOMAIN guard.original)
     \/ /\ f \in DOMAIN guard.presented
        /\ guard.presented[f] # guard.original[f]}

\* C6: For any stamped ticket, changing exactly one of user, account,
\* permissions (content or order), restricted or expiresAt to a different
\* value without re-stamping makes verifyTicket return false.
C6_SingleFieldMutationDetected ==
  (guard.checked /\ Cardinality(ChangedFields) = 1
     /\ ChangedFields \subseteq StampedFields)
    => guard.verified = FALSE

\* C6 witness: the order of the permissions was changed, nothing else, and
\* the ticket was verified.
C6_Witness ==
  /\ guard.checked
  /\ ChangedFields = {"permissions"}
  /\ guard.original.permissions = <<"read", "write">>
  /\ guard.presented.permissions = <<"write", "read">>
  /\ guard.verified = FALSE

\* C7: Any mutation of a stamped ticket without re-stamping is detected: a
\* ticket that differs from the stamped one in one or more fields (any of
\* user, account, permissions, restricted, expiresAt, token) and keeps its
\* checksum does not verify.
C7_AnyMutationDetected ==
  (guard.checked /\ ChangedFields # {}) => guard.verified = FALSE

(***************************************************************************)
(* Account resolution for a user who owns no account.                      *)
(***************************************************************************)
\* C11: When the user of a verified token owns no account, the lookup of
\* getTicket ends the call with a NOT_FOUND error and no ticket (unless
\* storage itself failed), leaves the account map and the buffer as they
\* were and the user uncached, so that a later resolve of that user goes to
\* storage again instead of hitting the cache.
C11_NoAccountIsNotFound ==
  [][\A c \in Calls :
       LET userId == call[c].payload.userId
       IN /\ ( /\ call[c].pc = "awaitAccount"
               /\ userId \notin DOMAIN dbAccounts
               /\ call'[c] # call[c] )
             => /\ call'[c].pc = "failed"
                /\ call'[c].ticket = Null
                /\ call'[c].error.trace # "storage"
                     => call'[c].error
                          = K2Error("NOT_FOUND", "s6v5wnchZZu5gjqw763x")
                /\ UNCHANGED << userAccounts, userAccountsBuffer >>
                /\ userId \notin DOMAIN userAccounts'
          /\ ( /\ call[c].pc = "resolveAccount"
               /\ userId \notin DOMAIN dbAccounts
               /\ call'[c] # call[c] )
             => /\ ~call'[c].hit
                /\ call'[c].pc \in {"awaitAccount", "failed"}
                /\ call'[c].pc = "awaitAccount"
                     => call'[c].accountLookups = call[c].accountLookups + 1
     ]_vars

\* C11 witness: getTicket for the user nobody has failed with NOT_FOUND after
\* its storage lookup, while the cache holds other users and not nobody.
C11_Witness ==
  \E c \in Calls :
    /\ call[c].pc = "failed"
    /\ call[c].error = K2Error("NOT_FOUND", "s6v5wnchZZu5gjqw763x")
    /\ call[c].accountLookups = 1
    /\ call[c].ticket = Null
    /\ Len(userAccountsBuffer) > 0
    /\ "nobody" \notin DOMAIN userAccounts

(***************************************************************************)
(* Properties of the token codec and of getTicket's treatment of tokens.   *)
(***************************************************************************)
\* The claims the token a call was given carries.
SeenClaims(c) == Decode(call[c].seen.token.body)

\* The token a call was given is a token signed with the access secret.
SeenAccessToken(c) ==
  call[c].seen.token.kind = "jwt" /\ call[c].seen.token.secret = JWT_SECRET

\* C12: Every ticket returned by getTicket has expiresAt equal to the time
\* at which getTicket assembles it, after its lookups have returned, plus
\* the fixed ticket TTL, which is at least the time of jwt.verify plus the
\* TTL; the token's iat and exp have no part in it.
C12_ExpiryIsAssemblyPlusTTL ==
  [][\A c \in Calls :
       (call[c].pc = "assemble" /\ call'[c].pc = "done")
         => /\ call'[c].ticket.expiresAt = now + ticketExpirationInMillis
            /\ call'[c].ticket.expiresAt
                 >= call[c].seen.at + ticketExpirationInMillis
     ]_vars

\* C12 witness: a token verified when part of its lifetime was gone, and a
\* ticket assembled later still, which expires after the token does.
C12_Witness ==
  \E c \in Calls :
    /\ call[c].pc = "done"
    /\ SeenAccessToken(c)
    /\ call[c].seen.at > SeenClaims(c).iat * 1000
    /\ call[c].ticket.expiresAt > SeenClaims(c).exp * 1000
    /\ call[c].ticket.expiresAt = now + ticketExpirationInMillis
    /\ now > call[c].seen.at

\* C12 as stated: expiresAt is the time of verification plus the TTL.
C12_ExpiryIsVerificationPlusTTL ==
  \A c \in Calls :
    call[c].pc = "done"
      => call[c].ticket.expiresAt
           = call[c].seen.at + ticketExpirationInMillis

\* C13: A correctly signed access token presented after its expiry is
\* rejected with an error whose kind is not the INVALID_TOKEN of missing,
\* malformed or wrongly signed tokens.
C13_ExpiredIsNotInvalidToken ==
  \A c \in Calls :
    ( /\ call[c].pc = "failed"
      /\ SeenAccessToken(c)
      /\ call[c].seen.at \div 1000 >= SeenClaims(c).exp )
      => call[c].error.code # "INVALID_TOKEN"

\* The token a call was given is missing, malformed or not signed with the
\* access secret.
SeenUnusable(c) == ~SeenAccessToken(c)

\* C14: getTicket fails with INVALID_TOKEN, and returns no ticket, whenever
\* the token is missing, malformed or not signed with the access secret:
\* such a call is never anywhere but at its failure.
C14_UnusableTokenIsInvalid ==
  \A c \in Calls :
    (call[c].pc # "idle" /\ SeenUnusable(c))
      => /\ call[c].pc = "failed"
         /\ call[c].error.code = "INVALID_TOKEN"
         /\ call[c].ticket = Null

\* C14 witness: getTicket has rejected a missing token, or a malformed one,
\* or the refresh token of the issued pair, which is well formed and signed
\* with the other secret.
C14_Witness ==
  \E c \in Calls :
    /\ call[c].pc = "failed"
    /\ call[c].error = K2Error("INVALID_TOKEN", "l2u8lwwbiiam7gfdsw5m")
    /\ codec.generated.result.returned
    /\ call[c].seen.token = codec.generated.result.value.refreshToken

\* The three properties of a payload.
PayloadOf(claims) ==
  [k \in {"userId", "roles", "restrictedMode"} \cap DOMAIN claims |->
     claims[k]]

\* C15: Round trip. At every instant before its expiry, jwt.verify of the
\* access token generateTokens produced for a payload returns claims with
\* the payload's userId, roles and restrictedMode; a getTicket call given
\* that token carries them, does not fail for the token, and returns a
\* ticket with user = userId and restricted = restrictedMode.
C15_RoundTrip ==
  codec.generated.result.returned =>
    LET given == codec.generated.payload
        token == codec.generated.result.value.accessToken
        verified == jwtVerify(token, JWT_SECRET, now)
    IN /\ now \div 1000 < (codec.generated.at \div 1000) + JWT_EXPIRATION
            => /\ verified.returned
               /\ PayloadOf(verified.value) = given
       /\ \A c \in Calls :
            call[c].seen.token = token =>
              /\ call[c].pc \notin {"idle", "failed"}
                   => PayloadOf(call[c].payload) = given
              /\ ( /\ call[c].pc = "failed"
                   /\ call[c].seen.at \div 1000
                        < (codec.generated.at \div 1000) + JWT_EXPIRATION )
                   => call[c].error.code # "INVALID_TOKEN"
              /\ call[c].pc = "done"
                   => /\ call[c].ticket.user = given.userId
                      /\ call[c].ticket.restricted = given.restrictedMode

\* C15 witness: a ticket built from the access token issued for the payload
\* of the restricted user, presented some time after it was issued.
C15_Witness ==
  \E c \in Calls :
    /\ codec.generated.result.returned
    /\ call[c].pc = "done"
    /\ call[c].seen.token = codec.generated.result.value.accessToken
    /\ call[c].seen.at > codec.generated.at
    /\ codec.generated.payload.restrictedMode
    /\ call[c].ticket.restricted
    /\ call[c].ticket.user = codec.generated.payload.userId
    /\ Len(call[c].payload.roles) > 0

\* C16: refreshTokens on a refresh token that is correctly signed with the
\* refresh secret and not expired returns a pair whose tokens carry the
\* payload recovered from the presented token.
C16_RefreshReturnsPair ==
  LET presented == jwtVerify(codec.refreshed.token, JWT_REFRESH_SECRET,
                             codec.refreshed.at)
      pair == codec.refreshed.result.value
  IN (codec.refreshed.called /\ presented.returned)
       => /\ codec.refreshed.result.returned
          /\ PayloadOf(Decode(pair.accessToken.body))
               = PayloadOf(presented.value)
          /\ PayloadOf(Decode(pair.refreshToken.body))
               = PayloadOf(presented.value)

\* C17: generateTokens called without a payload fails with the error kind
\* INVALID_PAYLOAD and produces no token.
C17_AbsentPayloadIsInvalidPayload ==
  (codec.generated.called /\ codec.generated.payload = Null)
    => /\ ~codec.generated.result.returned
       /\ codec.generated.result.error.code = "INVALID_PAYLOAD"

(***************************************************************************)
(* The role schema: what roleSchema.parse accepts.                         *)
(***************************************************************************)
\* The characters of the strings that occur as permissions.
Characters ==
  [s \in {"read", "write", "audit", "x_9", "Up", "9x", "a b", "", "admin",
          "system", "member"} |->
     CASE s = "read" -> <<"r", "e", "a", "d">>
       [] s = "write" -> <<"w", "r", "i", "t", "e">>
       [] s = "audit" -> <<"a", "u", "d", "i", "t">>
       [] s = "x_9" -> <<"x", "_", "9">>
       [] s = "Up" -> <<"U", "p">>
       [] s = "9x" -> <<"9", "x">>
       [] s = "a b" -> <<"a", " ", "b">>
       [] s = "admin" -> <<"a", "d", "m", "i", "n">>
       [] s = "system" -> <<"s", "y", "s", "t", "e", "m">>
       [] s = "member" -> <<"m", "e", "m", "b", "e", "r">>
       [] OTHER -> << >>]

LowerCase ==
  {"a", "b", "c", "d", "e", "f", "g", "h", "i", "j", "k", "l", "m", "n", "o",
   "p", "q", "r", "s", "t", "u", "v", "w", "x", "y", "z"}

Digits == {"0", "1", "2", "3", "4", "5", "6", "7", "8", "9"}

\* permissionRegex.test(s): /^[a-z][a-z0-9_]*$/
permissionRegex(s) ==
  LET cs == Characters[s]
  IN /\ Len(cs) >= 1
     /\ cs[1] \in LowerCase
     /\ \A i \in 2..Len(cs) : cs[i] \in LowerCase \cup Digits \cup {"_"}

\* new Set(permissions).size === permissions.length
SetSizeIsLength(permissions) ==
  Cardinality(ToSet(permissions)) = Len(permissions)

\* The role schema of the first version of Role: roleSchema.parse(data)
\* returns, or roleSchema.partial().parse(data) when partial.  A property
\* the data does not have is absent from the record.
oldRoleSchema(data, partial) ==
  /\ IF "name" \in DOMAIN data THEN data.name # "" ELSE partial
  /\ IF "permissions" \in DOMAIN data
     THEN /\ \A i \in 1..Len(data.permissions) :
               permissionRegex(data.permissions[i])
          /\ Len(data.permissions) > 0
          /\ SetSizeIsLength(data.permissions)
     ELSE partial

\* A role schema without the refinement on reserved permissions.
roleSchemaUnrefined(data, partial) == oldRoleSchema(data, partial)

\* Role.roleSchema: the same, and none of the reserved permissions.
roleSchema(data, partial) ==
  /\ oldRoleSchema(data, partial)
  /\ "permissions" \in DOMAIN data
       => ~\E i \in 1..Len(data.permissions) :
              data.permissions[i] \in {"admin", "system", "member"}

\* Role.validate(schema, data, trace)
validate(data, partial, trace) ==
  IF roleSchema(data, partial)
  THEN Returned(TRUE)
  ELSE Thrown(K2Error("VALIDATION_ERROR", trace))

(***************************************************************************)
(* Role storage changing under a running process: Role.create, Role.update *)
(* and Role.delete between and during the getTicket calls of one caller.   *)
(***************************************************************************)
\* The documents Role.create is called with; the id is one that tokens
\* already name.
NewRoles ==
  {[_uuid |-> "ghost", name |-> "ghost", permissions |-> <<"audit">>]}

\* The permission lists Role.update is called with.
EditedPermissions == {<<"audit">>}

\* The ids of the stored roles.
StoredRoleIds == {dbRoles[i]._uuid : i \in 1..Len(dbRoles)}

\* Role.create(newRole) by a caller the gate lets through.
CreateRole(inst, newRole) ==
  /\ allow(inst, <<"system", "admin">>, "912cup99hogtyuh1ks9k").returned
  /\ validate(newRole, FALSE, "1b9424x87ud6sxqry0fd").returned
  /\ newRole._uuid \notin StoredRoleIds
  /\ dbRoles' = Append(dbRoles, newRole)
  /\ UNCHANGED << caches, dbAccounts, now, call, aside >>

\* Role.update that also drops the role map of Auth, so that the next
\* getTicket scans again.
UpdateRoleInvalidates(inst, roleId, permissions) ==
  /\ allow(inst, <<"system", "admin">>, "4rgxhiehbrkuvyfc9zd8").returned
  /\ validate([permissions |-> permissions], TRUE,
              "zukmd1xscf1zqe0e070n").returned
  /\ roleId \in StoredRoleIds
  /\ dbRoles' = [i \in 1..Len(dbRoles) |->
                   IF dbRoles[i]._uuid = roleId
                   THEN [dbRoles[i] EXCEPT !.permissions = permissions]
                   ELSE dbRoles[i]]
  /\ rolesDefined' = FALSE
  /\ roles' = << >>
  /\ UNCHANGED << userAccounts, userAccountsBuffer, dbAccounts, now, call,
                  aside >>

\* Role.update(roleId, {permissions}) by a caller the gate lets through.
UpdateRole(inst, roleId, permissions) ==
  /\ allow(inst, <<"system", "admin">>, "4rgxhiehbrkuvyfc9zd8").returned
  /\ validate([permissions |-> permissions], TRUE,
              "zukmd1xscf1zqe0e070n").returned
  /\ roleId \in StoredRoleIds
  /\ dbRoles' = [i \in 1..Len(dbRoles) |->
                   IF dbRoles[i]._uuid = roleId
                   THEN [dbRoles[i] EXCEPT !.permissions = permissions]
                   ELSE dbRoles[i]]
  /\ UNCHANGED << caches, dbAccounts, now, call, aside >>

\* Role.delete(roleId) by a caller the gate lets through.
DeleteRole(inst, roleId) ==
  /\ allow(inst, <<"system", "admin">>, "lr9a3spnu0hhp75aqzji").returned
  /\ roleId \in StoredRoleIds
  /\ dbRoles' = SelectSeq(dbRoles, LAMBDA role : role._uuid # roleId)
  /\ UNCHANGED << caches, dbAccounts, now, call, aside >>

\* The access tokens the caller presents: those of the users u1 and u3,
\* issued when the process started.
StaleTokens ==
  {generateTokens(p, 0).value.accessToken :
     p \in {q \in Payloads : /\ q.userId \in {"u1", "u3"}
                            /\ q.roles = UserRoles(q.userId)}}

StaleNext ==
  \/ \E token \in StaleTokens :
       GetTicketStart(Caller, getSystemTicket(0), token)
  \/ RoleScanReturns(Caller)
  \/ RoleScanFails(Caller)
  \/ CollectRolePermissions(Caller)
  \/ ResolveAccount(Caller)
  \/ AccountLookupReturns(Caller)
  \/ AccountLookupFails(Caller)
  \/ AssembleTicket(Caller)
  \/ Finish(Caller)
  \/ \E inst \in InstanceTickets, newRole \in NewRoles :
       CreateRole(inst, newRole)
  \/ \E inst \in InstanceTickets, roleId \in StoredRoleIds,
        permissions \in EditedPermissions :
       UpdateRole(inst, roleId, permissions)
  \/ \E inst \in InstanceTickets, roleId \in StoredRoleIds :
       DeleteRole(inst, roleId)

StaleSpec == Init /\ [][StaleNext]_vars

\* C18: The role map is populated by one scan on first use and never
\* refreshed: a scan is issued only while Auth.roles is unset, Auth.roles
\* once set stays set, and once it is set and no scan is outstanding the map
\* never changes again, whatever is created, edited or deleted in role
\* storage; every later resolution is the union taken from that map.
C18_RolesNeverRefreshed ==
  [][ /\ rolesDefined => rolesDefined'
      /\ \A c \in Calls :
           (call'[c].pc = "awaitRoles" /\ call[c].pc # "awaitRoles")
             => ~rolesDefined /\ \A d \in Calls : call[d].roleScans = 0
      /\ (rolesDefined /\ \A c \in Calls : call[c].pc # "awaitRoles")
           => /\ roles' = roles
              /\ \A c \in Calls :
                   (call'[c].pc = "resolveAccount"
                      /\ call[c].pc # "resolveAccount")
                     => /\ call'[c].roleScans = call[c].roleScans
                        /\ ToSet(call'[c].permissions)
                             = RoleUnion(call'[c].payload.roles, roles)
    ]_vars

\* C18 witness: with r1 deleted, r2 edited and ghost created in storage, a
\* getTicket call that issued no scan has resolved ghost, r1 and member from
\* the map of the first scan: r1 still grants read, ghost grants nothing.
C18_Witness ==
  /\ StoredRoleIds = {"r2", "ghost"}
  /\ \A i \in 1..Len(dbRoles) : dbRoles[i].permissions = <<"audit">>
  /\ roles = StoreRoles(BootstrapRoles, StoredRoles)
  /\ \E c \in Calls :
       /\ call[c].pc = "resolveAccount"
       /\ call[c].roleScans = 0
       /\ call[c].payload.roles = <<"ghost", "r1", "member">>
       /\ call[c].permissions = <<"read", "member">>

(***************************************************************************)
(* Auth.getSystemTicket among the getTicket calls of sequential use.       *)
(***************************************************************************)
\* C19: Whenever getSystemTicket returns, in whatever state and however
\* often it has been called, the ticket has user = "system", account =
\* "system", exactly the one permission "system", restricted = false and
\* expiresAt = now + the fixed ticket TTL.
C19_SystemTicketIsFixed ==
  [][systemTicket' # systemTicket
       => /\ systemTicket'.user = "system"
          /\ systemTicket'.account = "system"
          /\ systemTicket'.permissions = <<"system">>
          /\ systemTicket'.restricted = FALSE
          /\ systemTicket'.expiresAt = now' + ticketExpirationInMillis
          /\ now' = now
    ]_vars

\* C19 witness: getSystemTicket called in a process whose caches are filled
\* and whose clock has advanced.
C19_Witness ==
  /\ systemTicket # Null
  /\ systemTicket.permissions = <<"system">>
  /\ systemTicket.expiresAt = now + ticketExpirationInMillis
  /\ now > 0
  /\ rolesDefined
  /\ Len(userAccountsBuffer) = MAX_USER_ACCOUNTS_BUFFER

\* C20: getSystemTicket is free of side effects: a call leaves the role map,
\* the account map and its buffer, role and account storage and every
\* getTicket call, finished or not, as they were, and what it returns
\* depends on the clock alone.
C20_SystemTicketHasNoEffect ==
  [][systemTicket' # systemTicket
       => /\ UNCHANGED << rolesDefined, roles, userAccounts,
                          userAccountsBuffer >>
          /\ UNCHANGED << dbRoles, dbAccounts >>
          /\ UNCHANGED call
          /\ systemTicket' = getSystemTicket(now)
    ]_vars

\* C20 witness: getSystemTicket was called after a getTicket call had
\* returned its ticket from filled caches, and that ticket is still there.
C20_Witness ==
  /\ systemTicket # Null
  /\ rolesDefined
  /\ \E c \in Calls :
       /\ call[c].pc = "done"
       /\ call[c].hit
       /\ call[c].ticket.expiresAt < systemTicket.expiresAt

(***************************************************************************)
(* Auth.allow called beside getTicket and getSystemTicket, on the tickets  *)
(* those have returned.                                                    *)
(***************************************************************************)
\* The tickets a caller has at hand: none, the system ticket, and the ticket
\* its getTicket call returned.
TicketsAtHand ==
  {Null, systemTicket} \cup {call[c].ticket : c \in Calls}

PureNext ==
  \/ \E token \in StaleTokens :
       GetTicketStart(Caller, getSystemTicket(0), token)
  \/ RoleScanReturns(Caller)
  \/ RoleScanFails(Caller)
  \/ CollectRolePermissions(Caller)
  \/ ResolveAccount(Caller)
  \/ AccountLookupReturns(Caller)
  \/ AccountLookupFails(Caller)
  \/ AssembleTicket(Caller)
  \/ Finish(Caller)
  \/ GetSystemTicket
  \/ \E ticket \in TicketsAtHand, permissions \in RequiredLists,
        trace \in TraceIds :
       Allow(ticket, permissions, trace)

PureSpec == Init /\ [][PureNext]_vars

\* C21: Auth.allow is a pure decision: whether it returns true or throws,
\* a call leaves the ticket it was given (the system ticket, the ticket of
\* a getTicket call) and the required list as they were, leaves the role
\* map, the account map and its buffer unchanged, and leaves storage and
\* every getTicket call untouched; its outcome is a function of its
\* arguments.
C21_AllowIsPure ==
  [][gate' # gate
       => /\ UNCHANGED << systemTicket, call >>
          /\ gate'.ticket \in TicketsAtHand
          /\ gate'.permissions \in RequiredLists
          /\ UNCHANGED << rolesDefined, roles, userAccounts,
                          userAccountsBuffer >>
          /\ UNCHANGED << dbRoles, dbAccounts >>
          /\ gate'.result
               = allow(gate'.ticket, gate'.permissions, gate'.trace)
    ]_vars

\* C21 witness: with both caches filled, Auth.allow has thrown for the ticket
\* a getTicket call returned, and that ticket is still the call's result.
C21_Witness ==
  /\ gate.called
  /\ ~gate.result.returned
  /\ rolesDefined
  /\ Len(userAccountsBuffer) > 0
  /\ \E c \in Calls :
       /\ call[c].pc = "done"
       /\ gate.ticket = call[c].ticket
       /\ verifyTicket(call[c].ticket)

\* C22: Auth.allow throws FORBIDDEN when the ticket is absent or has no
\* permission set, whatever the required list; and every error it throws is
\* FORBIDDEN with the trace id the caller supplied, or with the fixed default
\* of the throwing branch when none was supplied.
C22_ForbiddenCarriesTrace ==
  gate.called =>
    /\ (gate.ticket = Null \/ "permissions" \notin DOMAIN gate.ticket)
         => ~gate.result.returned
    /\ ~gate.result.returned
         => /\ gate.result.error.code = "FORBIDDEN"
            /\ gate.trace # "" => gate.result.error.trace = gate.trace
            /\ gate.trace = ""
                 => gate.result.error.trace
                      = IF gate.ticket = Null
                           \/ "permissions" \notin DOMAIN gate.ticket
                        THEN "fdezixsvfrg1xjqal6ar"
                        ELSE "09ij3rc687wc0ltqbf6a"

\* C22 witness: a ticket without a permission set, a required list that names
\* "system", a trace id supplied: FORBIDDEN with that trace id.
C22_Witness ==
  /\ gate.called
  /\ gate.ticket # Null
  /\ "permissions" \notin DOMAIN gate.ticket
  /\ Includes(gate.permissions, "system")
  /\ gate.trace # ""
  /\ gate.result = Thrown(K2Error("FORBIDDEN", gate.trace))

(***************************************************************************)
(* Storage failures at the two lookups of getTicket.                       *)
(***************************************************************************)
\* C23: When the role scan or the account lookup fails in storage, getTicket
\* fails with the error kind SERVICE_ERROR, returns no ticket, and has
\* issued at most one role scan and one account lookup.
C23_StorageFailureIsServiceError ==
  [][\A c \in Calls :
       ( /\ call'[c].pc = "failed"
         /\ \/ call[c].pc = "awaitRoles"
            \/ /\ call[c].pc = "awaitAccount"
               /\ call[c].payload.userId \in DOMAIN dbAccounts )
         => /\ call'[c].error.code = "SERVICE_ERROR"
            /\ call'[c].ticket = Null
            /\ call'[c].roleScans <= 1
            /\ call'[c].accountLookups <= 1
     ]_vars

(***************************************************************************)
(* The account cache under concurrent getTicket calls.                     *)
(***************************************************************************)
\* C28: Capacity bound: in every reachable state, under any interleaving of
\* getTicket calls, the account map and the buffer each hold at most
\* MAX_USER_ACCOUNTS_BUFFER entries.
C28_CapacityBound ==
  /\ Len(userAccountsBuffer) <= MAX_USER_ACCOUNTS_BUFFER
  /\ Cardinality(DOMAIN userAccounts) <= MAX_USER_ACCOUNTS_BUFFER

\* C28 witness: map and buffer are full, and a user whose account a call
\* fetched from storage and cached has been evicted since.
C28_Witness ==
  /\ Len(userAccountsBuffer) = MAX_USER_ACCOUNTS_BUFFER
  /\ Cardinality(DOMAIN userAccounts) = MAX_USER_ACCOUNTS_BUFFER
  /\ \E c \in Calls :
       /\ call[c].pc = "done"
       /\ ~call[c].hit
       /\ call[c].payload.userId \notin DOMAIN userAccounts

(***************************************************************************)
(* The role map after a failed first scan; getTicket calls that fail at    *)
(* the token.                                                              *)
(***************************************************************************)
\* C29: If the role scan fails during first-time population, the role map
\* remains unset, so that a later getTicket scans again.
C29_FailedScanLeavesRolesUnset ==
  [][\A c \in Calls :
       (call[c].pc = "awaitRoles" /\ call'[c].pc = "failed")
         => ~rolesDefined'
     ]_vars

\* C30: A getTicket call that fails at the token (missing, malformed,
\* wrongly signed or expired) issues no role scan and no account lookup and
\* leaves the role map, the account map and its buffer exactly as they were.
C30_TokenFailureTouchesNothing ==
  [][\A c \in Calls :
       ( /\ call[c].pc = "idle"
         /\ call'[c].pc # "idle"
         /\ \/ call'[c].seen.token.kind = "none"
            \/ ~jwtVerify(call'[c].seen.token, JWT_SECRET,
                          call'[c].seen.at).returned )
         => /\ call'[c].pc = "failed"
            /\ call'[c].roleScans = 0
            /\ call'[c].accountLookups = 0
            /\ UNCHANGED << rolesDefined, roles, userAccounts,
                            userAccountsBuffer >>
            /\ UNCHANGED << dbRoles, dbAccounts >>
     ]_vars

\* C30 witness: in a process whose caches are filled, getTicket has rejected
\* an expired access token.
C30_Witness ==
  /\ rolesDefined
  /\ Len(userAccountsBuffer) > 0
  /\ \E c \in Calls :
       /\ call[c].pc = "failed"
       /\ SeenAccessToken(c)
       /\ call[c].seen.at \div 1000 >= SeenClaims(c).exp
       /\ call[c].roleScans = 0
       /\ call[c].accountLookups = 0

(***************************************************************************)
(* The data layer: the methods of User, Account and Role, each one call    *)
(* from gate to outcome.  The storage calls a method makes are noted in    *)
(* request.accesses in the order in which it makes them.                   *)
(***************************************************************************)
\* The tickets User, Account and Role instances are constructed with: none,
\* the system ticket, a member ticket of u1, an admin ticket of u2.
DataTickets ==
  InstanceTickets
    \cup {Null,
          checksumTicket([user |-> "u2", account |-> "acct-u2",
                          permissions |-> <<"admin">>, restricted |-> FALSE,
                          expiresAt |-> ticketExpirationInMillis])}

\* The user ids the methods of User are called with: stored ones and one
\* that is not stored.
UserArgs == DOMAIN StoredUsers \cup {"u9"}

\* The data User.update is called with.
UserEdits == {[email |-> "new@k2"]}

\* The queries User.find is called with: {} and {email}.
UserQueries == {<< >>, "email" :> "u2@k2"}

\* db.get(collection, id): the document, or the storage layer's error when
\* there is none.
dbGet(collection, id) ==
  IF id \in DOMAIN collection
  THEN Returned(collection[id])
  ELSE Thrown(K2Error("NOT_FOUND", "storage"))

\* db.find("_users", query): the ids of the documents whose fields equal
\* those of the query.
dbFind(collection, query) ==
  {id \in DOMAIN collection :
     \A k \in DOMAIN query :
       IF k = "_uuid" THEN id = query[k] ELSE collection[id][k] = query[k]}

\* A TypeError: a property of null read.
TypeError == K2Error("TypeError", "")

\* What the request variable holds after a method has run.
Request(op, ticket, args, allowed, accesses, result) ==
  [op |-> op, ticket |-> ticket, args |-> args, gate |-> allowed,
   accesses |-> accesses, result |-> result]

\* The "self" test passing for every id.
SelfAny(ticket, id) == ticket # Null

\* this.ticket.user === id, for a ticket that is not null.
Self(ticket, id) == ticket # Null /\ ticket.user = id

\* User.get(id)
UserGet(ticket, id) ==
  LET allowed == allow(ticket, <<"system", "admin">>, "uqg1tpsptlm2c4jwj0f7")
      got == dbGet(dbUsers, id)
  IN /\ request' =
          IF allowed.returned
          THEN Request("User.get", ticket, <<id>>, allowed, <<"get">>, got)
          ELSE IF ticket = Null
               THEN Request("User.get", ticket, <<id>>, allowed, << >>,
                            Thrown(TypeError))
               ELSE IF ticket.user = id
                    THEN Request("User.get", ticket, <<id>>, allowed, <<"get">>, got)
                    ELSE Request("User.get", ticket, <<id>>, allowed, << >>,
                                 Thrown(allowed.error))
     /\ UNCHANGED << caches, storage, now, call, systemTicket, gate, guard,
                     history, codec, dbUsers, dbUserRoles >>

\* User.find(query)
UserFind(ticket, query) ==
  LET allowed == allow(ticket, <<"system", "admin">>, "vk0govi50srii8t5g57j")
  IN /\ request' =
          IF allowed.returned
          THEN Request("User.find", ticket, <<query>>, allowed, <<"find">>,
                       Returned(dbFind(dbUsers, query)))
          ELSE IF ticket = Null
               THEN Request("User.find", ticket, <<query>>, allowed, << >>,
                            Thrown(TypeError))
               ELSE Request("User.find", ticket, <<query>>, allowed, <<"find">>,
                            Returned(dbFind(dbUsers,
                                            ("_uuid" :> ticket.user)
                                              @@ query)))
     /\ UNCHANGED << caches, storage, now, call, systemTicket, gate, guard,
                     history, codec, dbUsers, dbUserRoles >>

\* db.delete("_users", id) and db.update("_users", id, data) for an id no
\* document has: the storage layer reports nothing deleted or updated, or
\* throws.
MissingOutcomes == {"nothing", "throws"}

MissingOutcome(outcome) ==
  IF outcome = "nothing"
  THEN Returned(0)
  ELSE Thrown(K2Error("NOT_FOUND", "storage"))

\* User.delete(id)
UserDelete(ticket, id) ==
  LET allowed == allow(ticket, <<"system", "admin">>, "s32xod35nda11la5ool5")
      op == "User.delete"
  IN \/ /\ allowed.returned \/ Self(ticket, id)
        /\ \/ /\ id \in DOMAIN dbUsers
              /\ dbUsers' = [u \in DOMAIN dbUsers \ {id} |-> dbUsers[u]]
              /\ request' = Request(op, ticket, <<id>>, allowed, <<"delete">>,
                                    Returned(1))
           \/ /\ id \notin DOMAIN dbUsers
              /\ \E outcome \in MissingOutcomes :
                   request' = Request(op, ticket, <<id>>, allowed, <<"delete">>,
                                      MissingOutcome(outcome))
              /\ UNCHANGED dbUsers
        /\ UNCHANGED << caches, storage, now, call, systemTicket, gate,
                        guard, history, codec, dbUserRoles >>
     \/ /\ ~allowed.returned
        /\ ~Self(ticket, id)
        /\ request' = Request(op, ticket, <<id>>, allowed, << >>,
                              IF ticket = Null THEN Thrown(TypeError)
                              ELSE Thrown(allowed.error))
        /\ UNCHANGED << caches, storage, now, call, systemTicket, gate,
                        guard, history, codec, dbUsers, dbUserRoles >>

\* User.update(id, data)
UserUpdate(ticket, id, edit) ==
  LET allowed == allow(ticket, <<"system", "admin">>, "bo64xz0ki7s8r1u85ro4")
      op == "User.update"
  IN \/ /\ allowed.returned \/ Self(ticket, id)
        /\ \/ /\ id \in DOMAIN dbUsers
              /\ dbUsers' = [dbUsers EXCEPT ![id].email = edit.email]
              /\ request' = Request(op, ticket, <<id, edit>>, allowed, <<"update">>,
                                    Returned(1))
           \/ /\ id \notin DOMAIN dbUsers
              /\ \E outcome \in MissingOutcomes :
                   request' = Request(op, ticket, <<id, edit>>, allowed, <<"update">>,
                                      MissingOutcome(outcome))
              /\ UNCHANGED dbUsers
        /\ UNCHANGED << caches, storage, now, call, systemTicket, gate,
                        guard, history, codec, dbUserRoles >>
     \/ /\ ~allowed.returned
        /\ ~Self(ticket, id)
        /\ request' = Request(op, ticket, <<id, edit>>, allowed, << >>,
                              IF ticket = Null THEN Thrown(TypeError)
                              ELSE Thrown(allowed.error))
        /\ UNCHANGED << caches, storage, now, call, systemTicket, gate,
                        guard, history, codec, dbUsers, dbUserRoles >>

\* Account.findOne({_owner: userId})
AccountFindOne(ticket, userId) ==
  LET allowed == allow(ticket, <<"system", "admin">>, "m9cnhmxkft3rkkasfkgf")
      op == "Account.findOne"
  IN /\ request' =
          IF ~allowed.returned
          THEN Request(op, ticket, <<userId>>, allowed, << >>, Thrown(allowed.error))
          ELSE IF userId \in DOMAIN dbAccounts
               THEN Request(op, ticket, <<userId>>, allowed, <<"findOne">>,
                            Returned(dbAccounts[userId]))
               ELSE Request(op, ticket, <<userId>>, allowed, <<"findOne">>,
                            Thrown(K2Error("NOT_FOUND",
                                           "s6v5wnchZZu5gjqw763x")))
     /\ UNCHANGED << caches, storage, now, call, systemTicket, gate, guard,
                     history, codec, dbUsers, dbUserRoles >>

UserNext ==
  \/ \E ticket \in DataTickets, id \in UserArgs : UserGet(ticket, id)
  \/ \E ticket \in DataTickets, query \in UserQueries :
       UserFind(ticket, query)
  \/ \E ticket \in DataTickets, id \in UserArgs : UserDelete(ticket, id)
  \/ \E ticket \in DataTickets, id \in UserArgs, edit \in UserEdits :
       UserUpdate(ticket, id, edit)
  \/ \E ticket \in DataTickets, userId \in UserIds :
       AccountFindOne(ticket, userId)

UserSpec == Init /\ [][UserNext]_vars

\* C24: Forbidden is terminal: a User, Account or Role method whose gate
\* refuses the ticket is rejected with the gate's error and makes no storage
\* access.
C24_ForbiddenIsTerminal ==
  (request.op # "none" /\ ~request.gate.returned)
    => /\ ~request.result.returned
       /\ request.accesses = << >>

(***************************************************************************)
(* Role: create of the current version, create and update of the first     *)
(* version, on the _roles collection.                                      *)
(***************************************************************************)
\* The most documents _roles holds.
MaxRoles == 3

\* Permission lists: valid ones, one per way of breaking the schema, and a
\* reserved one.
PermissionInputs ==
  { <<"read">>, <<"read", "x_9">>, <<"Up">>, <<"9x">>, <<"a b">>, <<"">>,
    << >>, <<"read", "read">>, <<"admin">> }

\* Role codes; "" stands for a code that is not passed.
RoleCodes == {"", "c1", "c2"}

\* The documents Role.create is called with: a name with each permission
\* list, no name, a code.
NewRoleDocs ==
  {[name |-> "editor", permissions |-> ps] : ps \in PermissionInputs}
    \cup {[name |-> "", permissions |-> <<"read">>],
          [name |-> "editor", code |-> "c1", permissions |-> <<"write">>]}

\* The arguments the first version's Role.create is called with: name,
\* permissions, code.
OldRoleArgs ==
  {<<"editor", ps, "">> : ps \in PermissionInputs}
    \cup {<<"editor", <<"read">>, c>> : c \in RoleCodes}
    \cup {<<"", <<"read">>, "c1">>, <<"editor", <<"Up">>, "c1">>}

\* The data Role.update is called with.
RoleEdits ==
  { [code |-> "c1"], [code |-> "c2"], [permissions |-> <<"Up">>],
    [name |-> "", code |-> "c1"] }

\* The _uuid db.create gives the next document.
FreshRoleId == "role-" \o ToString(Len(dbRoles) + 1)

\* db.findOne("_roles", {code}): the first document with that code, or null.
findOneByCode(code) ==
  LET hits == {i \in 1..Len(dbRoles) :
                 "code" \in DOMAIN dbRoles[i] /\ dbRoles[i].code = code}
  IN IF hits = {}
     THEN Null
     ELSE dbRoles[CHOOSE i \in hits : \A j \in hits : i <= j]

\* Role.create(newRole)
RoleCreate(ticket, newRole) ==
  LET allowed == allow(ticket, <<"system", "admin">>, "912cup99hogtyuh1ks9k")
      valid == validate(newRole, FALSE, "1b9424x87ud6sxqry0fd")
      op == "Role.create"
  IN /\ \/ /\ ~allowed.returned
           /\ request' = Request(op, ticket, <<newRole>>, allowed, << >>,
                                 Thrown(allowed.error))
           /\ UNCHANGED dbRoles
        \/ /\ allowed.returned
           /\ ~valid.returned
           /\ request' = Request(op, ticket, <<newRole>>, allowed, << >>,
                                 Thrown(K2Error("SERVICE_ERROR",
                                                "ehrkhmaxk92kfyjv7ksl")))
           /\ UNCHANGED dbRoles
        \/ /\ allowed.returned
           /\ valid.returned
           /\ Len(dbRoles) < MaxRoles
           /\ request' = Request(op, ticket, <<newRole>>, allowed,
                                 <<"create">>, Returned(FreshRoleId))
           /\ dbRoles' = Append(dbRoles, ("_uuid" :> FreshRoleId) @@ newRole)
     /\ UNCHANGED << caches, dbAccounts, now, call, systemTicket, gate, guard,
                     history, codec, dbUsers, dbUserRoles >>

\* Role.create(name, permissions, code) of the first version; it has no
\* gate.
OldRoleCreate(name, permissions, code) ==
  LET newRole == IF code = ""
                 THEN [name |-> name, permissions |-> permissions]
                 ELSE [name |-> name, permissions |-> permissions,
                       code |-> code]
      valid == oldRoleSchema(newRole, FALSE)
      found == findOneByCode(code)
      looked == IF code = "" THEN << >> ELSE <<"findOne">>
      op == "_OLD/Role.create"
  IN /\ \/ /\ ~valid
           /\ request' = Request(op, Null, <<newRole>>, Returned(TRUE), << >>,
                                 Thrown(K2Error("VALIDATION_ERROR",
                                                "validation_error")))
           /\ UNCHANGED dbRoles
        \/ /\ valid
           /\ code # ""
           /\ found # Null
           /\ request' = Request(op, Null, <<newRole>>, Returned(TRUE),
                                 looked,
                                 Thrown(K2Error("SERVICE_ERROR",
                                                "ehrkhmaxk92kfyjv7ksl")))
           /\ UNCHANGED dbRoles
        \/ /\ valid
           /\ (code = "" \/ found = Null)
           /\ Len(dbRoles) < MaxRoles
           /\ request' = Request(op, Null, <<newRole>>, Returned(TRUE),
                                 Append(looked, "create"),
                                 Returned(FreshRoleId))
           /\ dbRoles' = Append(dbRoles, ("_uuid" :> FreshRoleId) @@ newRole)
     /\ UNCHANGED << caches, dbAccounts, now, call, systemTicket, gate, guard,
                     history, codec, dbUsers, dbUserRoles >>

\* Role.update(roleId, data) of the first version.
OldRoleUpdate(roleId, edit) ==
  LET valid == oldRoleSchema(edit, TRUE)
      hasCode == IF "code" \in DOMAIN edit THEN edit.code # "" ELSE FALSE
      found == IF hasCode THEN findOneByCode(edit.code) ELSE Null
      taken == IF found = Null THEN FALSE ELSE found._uuid # roleId
      looked == IF hasCode THEN <<"findOne">> ELSE << >>
      failed == Thrown(K2Error("SYSTEM_ERROR", "0wmno8pfpzt6z318xvtj"))
      op == "_OLD/Role.update"
  IN /\ \/ /\ ~valid
           /\ request' = Request(op, Null, <<roleId, edit>>, Returned(TRUE),
                                 << >>,
                                 Thrown(K2Error("VALIDATION_ERROR",
                                                "validation_error")))
           /\ UNCHANGED dbRoles
        \/ /\ valid
           /\ taken
           /\ request' = Request(op, Null, <<roleId, edit>>, Returned(TRUE),
                                 looked, failed)
           /\ UNCHANGED dbRoles
        \/ /\ valid
           /\ ~taken
           /\ roleId \in StoredRoleIds
           /\ request' = Request(op, Null, <<roleId, edit>>, Returned(TRUE),
                                 Append(looked, "update"), Returned(1))
           /\ dbRoles' = [i \in 1..Len(dbRoles) |->
                            IF dbRoles[i]._uuid = roleId
                            THEN edit @@ dbRoles[i]
                            ELSE dbRoles[i]]
        \/ /\ valid
           /\ ~taken
           /\ roleId \notin StoredRoleIds
           /\ \E outcome \in MissingOutcomes :
                request' = Request(op, Null, <<roleId, edit>>, Returned(TRUE),
                                   Append(looked, "update"),
                                   IF MissingOutcome(outcome).returned
                                   THEN MissingOutcome(outcome)
                                   ELSE failed)
           /\ UNCHANGED dbRoles
     /\ UNCHANGED << caches, dbAccounts, now, call, systemTicket, gate, guard,
                     history, codec, dbUsers, dbUserRoles >>

RoleNext ==
  \/ \E ticket \in DataTickets, newRole \in NewRoleDocs :
       RoleCreate(ticket, newRole)
  \/ \E args \in OldRoleArgs : OldRoleCreate(args[1], args[2], args[3])
  \/ \E roleId \in StoredRoleIds \cup {"r9"}, edit \in RoleEdits :
       OldRoleUpdate(roleId, edit)

RoleSpec == Init /\ [][RoleNext]_vars

\* C25: Role.create with data that violates the role schema fails with
\* VALIDATION_ERROR and stores no role.
C25_InvalidRoleIsValidationError ==
  ( /\ request.op = "Role.create"
    /\ request.gate.returned
    /\ ~roleSchema(request.args[1], FALSE) )
    => /\ ~request.result.returned
       /\ request.result.error.code = "VALIDATION_ERROR"
       /\ request.accesses = << >>

\* The stored roles that hold the code.
HoldersOf(code) ==
  {dbRoles[i]._uuid : i \in {j \in 1..Len(dbRoles) :
                               /\ "code" \in DOMAIN dbRoles[j]
                               /\ dbRoles[j].code = code}}

\* The call that has just run is passed the code, with otherwise valid data.
PassedCode(called, partial) ==
  /\ "code" \in DOMAIN called.args[Len(called.args)]
  /\ oldRoleSchema(called.args[Len(called.args)], partial)

\* C26: Creating a role with a code a stored role holds, or updating a
\* role's code to one a different role holds, fails with ALREADY_EXISTS and
\* leaves the stored roles unchanged.
C26_TakenCodeIsAlreadyExists ==
  [][ ( \/ /\ request'.op = "_OLD/Role.create"
           /\ PassedCode(request', FALSE)
           /\ HoldersOf(request'.args[1].code) # {}
        \/ /\ request'.op = "_OLD/Role.update"
           /\ PassedCode(request', TRUE)
           /\ HoldersOf(request'.args[2].code) \ {request'.args[1]} # {} )
        => /\ ~request'.result.returned
           /\ request'.result.error.code = "ALREADY_EXISTS"
           /\ dbRoles' = dbRoles
    ]_vars

(***************************************************************************)
(* Account.addRolesToUser on the userRoles maps of the accounts.           *)
(***************************************************************************)
\* The account ids, user ids and role id lists addRolesToUser is called
\* with: stored accounts and one that is not stored; lists that overlap the
\* stored ones, repeat an id, or are empty.
AccountArgs == DOMAIN StoredUserRoles \cup {"invalid-id"}

MemberArgs == {"u1", "u2"}

RoleIdLists == {<<"r2">>, <<"r1", "r3">>, <<"r3", "r3">>, << >>}

RECURSIVE ArrayFromSet(_)
\* Array.from(new Set(s)): the first occurrence of each element, in order.
ArrayFromSet(s) ==
  IF s = << >>
  THEN << >>
  ELSE LET front == ArrayFromSet(SubSeq(s, 1, Len(s) - 1))
       IN IF Includes(front, s[Len(s)])
          THEN front
          ELSE Append(front, s[Len(s)])

\* The merge without the Set: the new ids appended to the old list.
mergeRolesAppended(old, roleIds) == old \o roleIds

\* Array.from(new Set([...account.userRoles[userId], ...roleIds]))
mergeRoles(old, roleIds) == ArrayFromSet(old \o roleIds)

\* Account.addRolesToUser(accountId, userId, roleIds); it has no gate.
AddRolesToUser(accountId, userId, roleIds) ==
  LET op == "Account.addRolesToUser"
      args == <<accountId, userId, roleIds>>
      account == dbGet(dbUserRoles, accountId)
      old == IF userId \in DOMAIN account.value
             THEN account.value[userId]
             ELSE << >>
  IN /\ IF account.returned
        THEN /\ dbUserRoles' =
                  [dbUserRoles EXCEPT ![accountId] =
                     (userId :> mergeRoles(old, roleIds)) @@ @]
             /\ request' = Request(op, Null, args, Returned(TRUE),
                                   <<"get", "update">>, Returned(TRUE))
        ELSE /\ request' = Request(op, Null, args, Returned(TRUE), <<"get">>,
                                   Thrown(K2Error("SERVICE_ERROR",
                                                  "acc_add_roles_to_user")))
             /\ UNCHANGED dbUserRoles
     /\ UNCHANGED << caches, storage, now, call, systemTicket, gate, guard,
                     history, codec, dbUsers >>

AccountNext ==
  \E accountId \in AccountArgs, userId \in MemberArgs,
     roleIds \in RoleIdLists :
    AddRolesToUser(accountId, userId, roleIds)

AccountSpec == Init /\ [][AccountNext]_vars

\* The role list of the user in the account as a set; empty without entry.
RolesIn(userRoles, accountId, userId) ==
  IF userId \in DOMAIN userRoles[accountId]
  THEN ToSet(userRoles[accountId][userId])
  ELSE {}

\* C27: addRolesToUser on a stored account leaves the user with a
\* duplicate-free list of exactly the previous role ids and the added ones
\* (an entry is made for a user that had none) and touches no other entry;
\* adding ids the user already has changes nothing (idempotence); on an
\* account that is not stored it fails with a K2Error (of kind
\* SERVICE_ERROR) and changes nothing.
C27_AddRolesIsUnion ==
  [][request'.op = "Account.addRolesToUser"
       => LET accountId == request'.args[1]
              userId == request'.args[2]
              roleIds == request'.args[3]
          IN IF accountId \in DOMAIN dbUserRoles
             THEN /\ request'.result.returned
                  /\ DOMAIN dbUserRoles' = DOMAIN dbUserRoles
                  /\ userId \in DOMAIN dbUserRoles'[accountId]
                  /\ ToSet(dbUserRoles'[accountId][userId])
                       = RolesIn(dbUserRoles, accountId, userId)
                           \cup ToSet(roleIds)
                  /\ NoDuplicates(dbUserRoles'[accountId][userId])
                  /\ \A a \in DOMAIN dbUserRoles :
                       \A u \in DOMAIN dbUserRoles[a] :
                         (a # accountId \/ u # userId)
                           => /\ u \in DOMAIN dbUserRoles'[a]
                              /\ dbUserRoles'[a][u] = dbUserRoles[a][u]
                  /\ ( /\ userId \in DOMAIN dbUserRoles[accountId]
                       /\ ToSet(roleIds)
                            \subseteq RolesIn(dbUserRoles, accountId, userId) )
                       => dbUserRoles' = dbUserRoles
             ELSE /\ ~request'.result.returned
                  /\ request'.result.error.code = "SERVICE_ERROR"
                  /\ dbUserRoles' = dbUserRoles
    ]_vars

\* C27 witness: roles were added to u1 of acct-u1, who had r1, and an entry
\* was made for u2 in that account; the last call was for an account that is
\* not stored and failed.
C27_Witness ==
  /\ request.op = "Account.addRolesToUser"
  /\ request.args[1] = "invalid-id"
  /\ ~request.result.returned
  /\ dbUserRoles["acct-u1"]["u1"] = <<"r1", "r3", "r2">>
  /\ "u2" \in DOMAIN dbUserRoles["acct-u1"]
  /\ dbUserRoles["acct-u1"]["u2"] = <<"r3">>

(***************************************************************************)
(* Auth.allow on tickets that differ in everything but their permissions.  *)
(***************************************************************************)
\* The permission lists of the tickets.
VariantPermissions == {<< >>, <<"read">>, <<"read", "admin">>}

\* A ticket stamped without the last permission of the list, which was
\* added afterwards: its checksum does not verify.
TamperedTicket(ps) ==
  [checksumTicket([user |-> "u1", account |-> "acct-u1",
                   permissions |-> SubSeq(ps, 1, Len(ps) - 1),
                   restricted |-> FALSE,
                   expiresAt |-> ticketExpirationInMillis])
     EXCEPT !.permissions = ps]

\* For each permission list: a freshly stamped ticket, one of another user
\* and account in restricted mode, one stamped so long ago that expiresAt
\* has passed, one that was never stamped, and a tampered one.
VariantTickets ==
  UNION
    {{checksumTicket([user |-> "u1", account |-> "acct-u1",
                      permissions |-> ps, restricted |-> FALSE,
                      expiresAt |-> ticketExpirationInMillis]),
      checksumTicket([user |-> "u2", account |-> "acct-u2",
                      permissions |-> ps, restricted |-> TRUE,
                      expiresAt |-> ticketExpirationInMillis]),
      checksumTicket([user |-> "u1", account |-> "acct-u1",
                      permissions |-> ps, restricted |-> FALSE,
                      expiresAt |-> 0 - 1]),
      [user |-> "u1", account |-> "acct-u1", permissions |-> ps,
       restricted |-> FALSE, expiresAt |-> ticketExpirationInMillis]} :
       ps \in VariantPermissions}
    \cup {TamperedTicket(ps) : ps \in VariantPermissions \ {<< >>}}

VariantNext ==
  \E ticket \in VariantTickets, permissions \in RequiredLists,
     trace \in TraceIds :
    Allow(ticket, permissions, trace)

VariantSpec == Init /\ [][VariantNext]_vars

\* C31: The decision of Auth.allow depends on ticket.permissions and the
\* required list only: every ticket with the permissions of the one that
\* was presented gets the same decision, whatever its user, account,
\* restricted, expiresAt and checksum; a ticket past its expiresAt or with a
\* checksum that does not verify is let through exactly when one of the
\* required permissions is among its permissions.
C31_DecisionByPermissionsOnly ==
  gate.called
    => /\ \A other \in VariantTickets :
            other.permissions = gate.ticket.permissions
              => allow(other, gate.permissions, gate.trace).returned
                   = gate.result.returned
       /\ gate.result.returned
            = \E i \in 1..Len(gate.permissions) :
                Includes(gate.ticket.permissions, gate.permissions[i])

\* C31 witness: the gate has let through a ticket whose checksum does not
\* verify, on the permission that was added after stamping; a stamped ticket
\* with these permissions exists that is past its expiresAt.
C31_Witness ==
  /\ gate.called
  /\ gate.result.returned
  /\ gate.ticket = TamperedTicket(<<"read">>)
  /\ ~verifyTicket(gate.ticket)
  /\ gate.permissions = <<"read">>
  /\ \E other \in VariantTickets :
       /\ other.permissions = gate.ticket.permissions
       /\ verifyTicket(other)
       /\ other.expiresAt < now

(***************************************************************************)
(* Access and refresh tokens presented where the other kind is expected.   *)
(***************************************************************************)
\* The token is one generateTokens signed as refresh token / access token.
IsRefreshToken(token) ==
  token.kind = "jwt" /\ token.secret = JWT_REFRESH_SECRET

IsAccessToken(token) == token.kind = "jwt" /\ token.secret = JWT_SECRET

\* C32: Access and refresh tokens are not interchangeable: getTicket given
\* a refresh token fails with INVALID_TOKEN and returns no ticket, and
\* refreshTokens given an access token fails at jwt.verify, on the
\* signature, and returns no pair.
C32_TokensNotInterchangeable ==
  /\ \A c \in Calls :
       (call[c].pc # "idle" /\ IsRefreshToken(call[c].seen.token))
         => /\ call[c].pc = "failed"
            /\ call[c].error.code = "INVALID_TOKEN"
            /\ call[c].ticket = Null
  /\ (codec.refreshed.called /\ IsAccessToken(codec.refreshed.token))
       => /\ ~codec.refreshed.result.returned
          /\ codec.refreshed.result.error
               = K2Error("JsonWebTokenError", "invalid signature")

\* C32 witness: of one generated pair, the access token was presented to
\* refreshTokens and the refresh token to getTicket, before either expired,
\* and both were rejected.
C32_Witness ==
  /\ codec.generated.result.returned
  /\ codec.refreshed.called
  /\ codec.refreshed.token = codec.generated.result.value.accessToken
  /\ ~codec.refreshed.result.returned
  /\ codec.refreshed.at = codec.generated.at
  /\ \E c \in Calls :
       /\ call[c].pc = "failed"
       /\ call[c].seen.token = codec.generated.result.value.refreshToken
       /\ call[c].seen.at = codec.generated.at

\* C33: refreshTokens fails with INVALID_TOKEN when no refresh token is
\* supplied or the token is malformed or not signed with the refresh
\* secret, and with a token-expired error when the refresh token's expiry
\* has passed; in each of these cases it returns no pair.
C33_RefreshErrorTaxonomy ==
  LET token == codec.refreshed.token
      failure == codec.refreshed.result
  IN codec.refreshed.called
       => /\ ~IsRefreshToken(token)
               => /\ ~failure.returned
                  /\ failure.error.code = "INVALID_TOKEN"
          /\ ( /\ IsRefreshToken(token)
               /\ codec.refreshed.at \div 1000 >= Decode(token.body).exp )
               => /\ ~failure.returned
                  /\ failure.error.code \in {"TOKEN_EXPIRED",
                                             "TokenExpiredError"}

(***************************************************************************)
(* The methods of User under a ticket without system and admin.            *)
(***************************************************************************)
\* The ticket holds neither system nor admin.
Unprivileged(ticket) ==
  /\ ticket # Null
  /\ ~Includes(ticket.permissions, "system")
  /\ ~Includes(ticket.permissions, "admin")

\* C34: Under a ticket holding neither system nor admin, User.get,
\* User.update and User.delete access storage only for the id ticket.user
\* and are otherwise refused with FORBIDDEN without a storage access,
\* User.find returns no document but the one of ticket.user, and no such
\* call changes or removes the document of another user.
C34_SelfAccessConfined ==
  [][( /\ request'.op \in {"User.get", "User.find", "User.update",
                           "User.delete"}
       /\ Unprivileged(request'.ticket) )
       => /\ request'.op # "User.find"
               => IF request'.args[1] = request'.ticket.user
                  THEN Len(request'.accesses) = 1
                  ELSE /\ request'.accesses = << >>
                       /\ ~request'.result.returned
                       /\ request'.result.error.code = "FORBIDDEN"
          /\ request'.op = "User.find"
               => /\ request'.result.returned
                  /\ request'.result.value \subseteq {request'.ticket.user}
          /\ \A u \in DOMAIN dbUsers :
               u # request'.ticket.user
                 => /\ u \in DOMAIN dbUsers'
                    /\ dbUsers'[u] = dbUsers[u]
    ]_vars

\* C34 witness: under its member ticket u1 has deleted its own record; the
\* record of u2 is as it was stored.
C34_Witness ==
  /\ request.op = "User.delete"
  /\ Unprivileged(request.ticket)
  /\ request.ticket.user = "u1"
  /\ request.args[1] = "u1"
  /\ request.result.returned
  /\ "u1" \notin DOMAIN dbUsers
  /\ "u2" \in DOMAIN dbUsers
  /\ dbUsers["u2"] = StoredUsers["u2"]

(***************************************************************************)
(* getTicket while the _accounts collection changes: Account.delete and    *)
(* Account.update run between the steps of the calls in flight.            *)
(***************************************************************************)
\* The _uuids of the accounts in storage.
AccountIds == {dbAccounts[u] : u \in DOMAIN dbAccounts}

\* The user that owns the account.
OwnerOf(accountId) == CHOOSE u \in DOMAIN dbAccounts : dbAccounts[u] = accountId

\* Account.delete that also drops the owner's entry of Auth.userAccounts.
DeleteAccountInvalidates(inst, accountId) ==
  /\ allow(inst, <<"system", "admin">>, "9ru9hqhyry8ue30r8e5n").returned
  /\ allow(inst, <<"system", "admin">>, "hd879ns6aqd9yxnv7ygx").returned
  /\ accountId \in AccountIds
  /\ dbAccounts' = DeleteKey(dbAccounts, OwnerOf(accountId))
  /\ userAccounts' = DeleteKey(userAccounts, OwnerOf(accountId))
  /\ UNCHANGED << rolesDefined, roles, userAccountsBuffer, dbRoles, now,
                  call, aside >>

\* Account.delete(accountId) that succeeds: both gates pass, get finds the
\* account, db.delete removes it.  Auth.userAccounts is not touched.
DeleteAccount(inst, accountId) ==
  /\ allow(inst, <<"system", "admin">>, "9ru9hqhyry8ue30r8e5n").returned
  /\ allow(inst, <<"system", "admin">>, "hd879ns6aqd9yxnv7ygx").returned
  /\ accountId \in AccountIds
  /\ dbAccounts' = DeleteKey(dbAccounts, OwnerOf(accountId))
  /\ UNCHANGED << caches, dbRoles, now, call, aside >>

\* Account.update(accountId, {_owner: owner}) that succeeds, for an owner
\* that has no account: the account passes to the new owner.
UpdateAccountOwner(inst, accountId, owner) ==
  /\ allow(inst, <<"system", "admin">>, "dbq2y9cpgp4p3rf0pwol").returned
  /\ allow(inst, <<"system", "admin">>, "hd879ns6aqd9yxnv7ygx").returned
  /\ accountId \in AccountIds
  /\ owner \notin DOMAIN dbAccounts
  /\ dbAccounts' = (owner :> accountId)
                     @@ DeleteKey(dbAccounts, OwnerOf(accountId))
  /\ UNCHANGED << caches, dbRoles, now, call, aside >>

\* The access tokens presented: one per owner, issued when the process
\* started.
ChurnTokens ==
  {generateTokens(p, 0).value.accessToken :
     p \in {q \in Payloads : /\ q.userId \in OwnerIds
                            /\ q.roles = UserRoles(q.userId)}}

\* The user whose account is deleted and who is given the account of another
\* user.
ChurnUser == "u1"

\* getTicket calls in flight on an Auth constructed with the system ticket,
\* interleaved with the deletion of the account of ChurnUser and with
\* changes of owner that hand another account to ChurnUser.
ChurnNext ==
  \/ \E c \in Calls, token \in ChurnTokens :
       GetTicketStart(c, getSystemTicket(0), token)
  \/ \E c \in Calls : RoleScanReturns(c)
  \/ \E c \in Calls : CollectRolePermissions(c)
  \/ \E c \in Calls : ResolveAccount(c)
  \/ \E c \in Calls : AccountLookupReturns(c)
  \/ \E c \in Calls : AssembleTicket(c)
  \/ \E c \in Calls : Finish(c)
  \/ \E inst \in InstanceTickets :
       /\ ChurnUser \in DOMAIN dbAccounts
       /\ DeleteAccount(inst, dbAccounts[ChurnUser])
  \/ \E inst \in InstanceTickets, accountId \in AccountIds :
       UpdateAccountOwner(inst, accountId, ChurnUser)

ChurnSpec == Init /\ [][ChurnNext]_vars

\* cacheUserAccount evicts the entry of userId in this step: userId is the
\* oldest id of a full buffer, and the buffer shifts it out.
EvictedNow(userId) ==
  /\ Len(userAccountsBuffer) >= MAX_USER_ACCOUNTS_BUFFER
  /\ Head(userAccountsBuffer) = userId
  /\ Len(userAccountsBuffer') = Len(userAccountsBuffer)
  /\ \A i \in 1..(Len(userAccountsBuffer) - 1) :
       userAccountsBuffer'[i] = userAccountsBuffer[i + 1]

\* A getTicket call for userId reaches getUserAccount in this step.
ResolvesNow(c, userId) ==
  /\ call[c].pc = "resolveAccount"
  /\ call[c].payload.userId = userId
  /\ call'[c] # call[c]

\* A call for userId that is served from the cache: it gets the cached
\* account, whatever storage holds, and has made no lookup.
ServedFromCache(c, userId) ==
  /\ call'[c].pc = "assemble"
  /\ call'[c].hit
  /\ call'[c].accountId = userAccounts[userId]
  /\ call'[c].accountLookups = 0

\* A lookup for userId, suspended since the user was last found uncached,
\* returns in this step.
LookupReturnsNow(userId) ==
  \E c \in Calls : /\ call[c].pc = "awaitAccount"
                   /\ call[c].payload.userId = userId
                   /\ call'[c].pc = "assemble"

MissOutcome(inst, userId) ==
  LET gated == allow(inst, <<"system", "admin">>, "m9cnhmxkft3rkkasfkgf")
  IN IF ~gated.returned THEN [accountId |-> "", error |-> gated.error]
     ELSE IF userId \in DOMAIN dbAccounts
     THEN [accountId |-> dbAccounts[userId], error |-> NoError]
     ELSE [accountId |-> "",
           error |-> K2Error("NOT_FOUND", "s6v5wnchZZu5gjqw763x")]

\* C36: With account storage unchanged, a getTicket call whose account is
\* served from Auth.userAccounts gets what the miss path would have given
\* the same Auth instance for the same token: the same account id and no
\* failure, also for an instance constructed with a ticket that holds
\* neither system nor admin.
C36_CacheTransparent ==
  \A c \in Calls :
    ( call[c].pc = "assemble" /\ call[c].hit )
      => LET missed == MissOutcome(call[c].inst, call[c].payload.userId)
         IN /\ missed.error = NoError
            /\ missed.accountId = call[c].accountId

(***************************************************************************)
(* Role.create and Role.update given reserved permissions, and the tickets *)
(* getTicket builds from the stored roles.                                 *)
(***************************************************************************)
ReservedPermissions == {"admin", "system", "member"}

\* The documents Role.create is called with: a valid one, and two with a
\* reserved permission.
ReservedRoleDocs ==
  {[name |-> "editor", permissions |-> ps] :
     ps \in {<<"audit">>, <<"system">>, <<"read", "admin">>}}

\* The data Role.update is called with.
ReservedRoleEdits ==
  {[permissions |-> ps] :
     ps \in {<<"audit">>, <<"system">>, <<"write", "member">>}}

\* Role.update(roleId, data)
RoleUpdate(ticket, roleId, edit) ==
  LET allowed == allow(ticket, <<"system", "admin">>, "4rgxhiehbrkuvyfc9zd8")
      valid == validate(edit, TRUE, "zukmd1xscf1zqe0e070n")
      hasCode == IF "code" \in DOMAIN edit THEN edit.code # "" ELSE FALSE
      found == IF hasCode THEN findOneByCode(edit.code) ELSE Null
      taken == IF found = Null THEN FALSE ELSE found._uuid # roleId
      looked == IF hasCode THEN <<"findOne">> ELSE << >>
      failed == Thrown(K2Error("SYSTEM_ERROR", "0wmno8pfpzt6z318xvtj"))
      op == "Role.update"
  IN /\ \/ /\ ~allowed.returned
           /\ request' = Request(op, ticket, <<roleId, edit>>, allowed, << >>,
                                 Thrown(allowed.error))
           /\ UNCHANGED dbRoles
        \/ /\ allowed.returned
           /\ ~valid.returned
           /\ request' = Request(op, ticket, <<roleId, edit>>, allowed, << >>,
                                 failed)
           /\ UNCHANGED dbRoles
        \/ /\ allowed.returned
           /\ valid.returned
           /\ taken
           /\ request' = Request(op, ticket, <<roleId, edit>>, allowed,
                                 looked, failed)
           /\ UNCHANGED dbRoles
        \/ /\ allowed.returned
           /\ valid.returned
           /\ ~taken
           /\ roleId \in StoredRoleIds
           /\ request' = Request(op, ticket, <<roleId, edit>>, allowed,
                                 Append(looked, "update"), Returned(1))
           /\ dbRoles' = [i \in 1..Len(dbRoles) |->
                            IF dbRoles[i]._uuid = roleId
                            THEN edit @@ dbRoles[i]
                            ELSE dbRoles[i]]
        \/ /\ allowed.returned
           /\ valid.returned
           /\ ~taken
           /\ roleId \notin StoredRoleIds
           /\ \E outcome \in MissingOutcomes :
                request' = Request(op, ticket, <<roleId, edit>>, allowed,
                                   Append(looked, "update"),
                                   IF MissingOutcome(outcome).returned
                                   THEN MissingOutcome(outcome)
                                   ELSE failed)
           /\ UNCHANGED dbRoles
     /\ UNCHANGED << caches, dbAccounts, now, call, systemTicket, gate, guard,
                     history, codec, dbUsers, dbUserRoles >>

\* The access tokens presented: of u1, listing a stored role and the role
\* Role.create adds, or the bootstrap role id system next to a stored role.
ReservedTokens ==
  {generateTokens([userId |-> "u1", roles |-> rs, restrictedMode |-> FALSE],
                  0).value.accessToken :
     rs \in {<<"r1", "role-3">>, <<"system", "r2">>}}

\* Roles are created by callers with the system ticket and with a member's
\* ticket and updated under the system ticket, while one caller presents
\* tokens.
ReservedNext ==
  \/ \E ticket \in InstanceTickets, newRole \in ReservedRoleDocs :
       RoleCreate(ticket, newRole)
  \/ \E roleId \in StoredRoleIds, edit \in ReservedRoleEdits :
       RoleUpdate(getSystemTicket(0), roleId, edit)
  \/ \E token \in ReservedTokens :
       GetTicketStart(Caller, getSystemTicket(0), token)
  \/ RoleScanReturns(Caller)
  \/ CollectRolePermissions(Caller)
  \/ ResolveAccount(Caller)
  \/ AccountLookupReturns(Caller)
  \/ AssembleTicket(Caller)
  \/ Finish(Caller)

ReservedSpec == Init /\ [][ReservedNext]_vars

\* The permissions of a list that are reserved.
ReservedIn(permissions) ==
  {permissions[i] : i \in 1..Len(permissions)} \cap ReservedPermissions

\* The call asks for a reserved permission.
AsksReserved ==
  \/ /\ request.op = "Role.create"
     /\ ReservedIn(request.args[1].permissions) # {}
  \/ /\ request.op = "Role.update"
     /\ "permissions" \in DOMAIN request.args[2]
     /\ ReservedIn(request.args[2].permissions) # {}

\* C37: Role.create and Role.update fail, without a storage access, for a
\* permissions list that contains system, admin or member; no stored role
\* and no entry of Auth.roles but the bootstrap ones carries a reserved
\* permission; a ticket getTicket returns holds "system" only if the role
\* ids of its token payload include the bootstrap id system.
C37_ReservedNotGranted ==
  /\ AsksReserved => /\ ~request.result.returned
                     /\ request.accesses = << >>
  /\ \A i \in 1..Len(dbRoles) : ReservedIn(dbRoles[i].permissions) = {}
  /\ \A id \in DOMAIN roles :
       ReservedIn(roles[id]) # {} => id \in ReservedPermissions
  /\ \A c \in Calls :
       ( call[c].pc = "done" /\ Includes(call[c].ticket.permissions, "system") )
         => Includes(call[c].payload.roles, "system")

\* C37 witness: an update with the permission system has been refused under
\* the system ticket, a role has been created and is in Auth.roles, and the
\* ticket returned for the token that lists the bootstrap id system holds
\* system.
C37_Witness ==
  /\ request.op = "Role.update"
  /\ AsksReserved
  /\ Includes(request.ticket.permissions, "system")
  /\ ~request.result.returned
  /\ Len(dbRoles) > Len(StoredRoles)
  /\ "role-3" \in DOMAIN roles
  /\ call[Caller].pc = "done"
  /\ Includes(call[Caller].ticket.permissions, "system")
  /\ Includes(call[Caller].payload.roles, "system")

(***************************************************************************)
(* Auth.verifyTicket on any ticket: absent, unstamped, with an empty or a  *)
(* foreign checksum, stamped, changed after stamping.                      *)
(***************************************************************************)
\* Auth.getInvalidTicket(), called at nowMs.
getInvalidTicket(nowMs) ==
  [user |-> "invalid", account |-> "invalid", permissions |-> << >>,
   restricted |-> TRUE, expiresAt |-> nowMs, checksum |-> ""]

\* Ticket contents: the assembled tickets, and each with one field
\* reassigned.
TicketContents ==
  AssembledTickets
    \cup UNION {{SetField(ticket, f, value) :
                   ticket \in AssembledTickets, value \in FieldValues(f)} :
                 f \in StampedFields}

\* The tickets verifyTicket is called with: none, the invalid ticket, and
\* each content without a checksum, with an empty one, with its own and
\* with the checksum of an assembled ticket.
VerifyInputs ==
  {Null}
    \cup {getInvalidTicket(t) : t \in Instants}
    \cup TicketContents
    \cup {SetField(ticket, "checksum", "") : ticket \in TicketContents}
    \cup {checksumTicket(ticket) : ticket \in TicketContents}
    \cup {SetField(ticket, "checksum", checksumTicket(other).checksum) :
            ticket \in TicketContents, other \in AssembledTickets}

\* Auth.verifyTicket(ticket)
VerifyTicket(ticket) ==
  /\ request' = Request("Auth.verifyTicket", ticket, << >>, Returned(TRUE),
                        << >>, Returned(verifyTicket(ticket)))
  /\ UNCHANGED << caches, storage, now, call, systemTicket, gate, guard,
                  history, codec, dbUsers, dbUserRoles >>

VerifyNext == \E ticket \in VerifyInputs : VerifyTicket(ticket)

VerifySpec == Init /\ [][VerifyNext]_vars

\* The ticket is absent or carries no checksum or an empty one.
Unsigned(ticket) ==
  IF ticket = Null THEN TRUE
  ELSE IF "checksum" \notin DOMAIN ticket THEN TRUE
  ELSE ticket.checksum = ""

\* C38: verifyTicket returns, and never throws; it returns false for an
\* absent ticket and for a ticket whose checksum is absent or empty, and
\* for every other ticket it returns true exactly when the stored checksum
\* is the digest of user, account, permissions, restricted and expiresAt
\* as checksumTicket computes it.
C38_VerifyIsDigestEquality ==
  request.op = "Auth.verifyTicket"
    => /\ request.result.returned
       /\ IF Unsigned(request.ticket)
          THEN request.result.value = FALSE
          ELSE request.result.value
                 = (request.ticket.checksum
                      = sha256hex(ChecksumData(request.ticket)))

\* C38 witness: the ticket of getInvalidTicket was verified and found
\* invalid.
C38_Witness ==
  /\ request.op = "Auth.verifyTicket"
  /\ request.ticket \in {getInvalidTicket(t) : t \in Instants}
  /\ request.result.returned
  /\ request.result.value = FALSE

====
